---------------------------- MODULE Spec2Model ----------------------------
(***************************************************************************)
(* A model of pretix-race: the command line entry point (main), the poll   *)
(* loop of SecondhandMonitor (run, _discover_marketplace,                  *)
(* _poll_for_marketplace_link, _poll_once, _handle_tickets_found,          *)
(* _add_to_cart, _handoff_to_browser), the SecondhandSession transport     *)
(* (get, post, _reconnect, close) and the page parser's stage precedence.  *)
(*                                                                         *)
(* Text is modelled by what the code reads from it: a URL is the sequence  *)
(* of its path pieces, a form is a mapping from field name to value with   *)
(* Absent for a missing key, a page is the tuple of what each extraction   *)
(* stage finds in it.                                                      *)
(*                                                                         *)
(* The specifications share the variables: Spec (FairSpec, WaitFairSpec    *)
(* with fairness) is a run of main(); StopSpec is that run with a thread   *)
(* that may call stop(); PollSpec is the poll loop from step 2 on;         *)
(* SessionSpec is a SecondhandSession under any sequence of get, post and  *)
(* close calls, with responses that set cookies; BackoffSpec is the error  *)
(* counter and get_backoff_seconds() under any configured interval and     *)
(* ceiling; ParserSpec is the parser on pages given as markup.             *)
(***************************************************************************)
EXTENDS Integers, Sequences, FiniteSets, TLC

\* ------------------------------------------------------------------ bounds
\* GET transmissions one run may put on the wire.
MaxGets == 3
\* POST transmissions one run may put on the wire.
MaxPosts == 2
\* Consecutive errors the backoff is followed to.
MaxErrors == 6
\* Elements in the body of a page handed to the parser.
MaxItems == 2

\* ------------------------------------------------------- program constants
\* session.py: MAX_REQUESTS_BEFORE_RECONNECT
MAX_REQUESTS_BEFORE_RECONNECT == 950
\* session.py, get_backoff_seconds: the first backoff step, in seconds
BackoffBase == 30
\* config.py: Config.poll_interval_seconds
DefaultPollInterval == 15
\* config.py: Config.backoff_max_seconds
DefaultBackoffMax == 300

\* ------------------------------------------------------------- basic values
None == "None"
\* Optional[str] for a URL: a URL is a sequence, so None is one too.
NoUrl == <<"None">>
Absent == "Absent"
CsrfTokens == {"tok1", "tok2"}

\* SessionState.cookies: a dict over the cookie names the server uses.
CookieNames == {"session", "cart"}
CookieValues == {"a", "b"}
NoCookies == [n \in CookieNames |-> Absent]

\* A dict[str, str] of form fields: the two field names the model follows.
FormData(csrf, item) == [csrfmiddlewaretoken |-> csrf, item |-> item]

Contains(seq, piece) == \E i \in DOMAIN seq : seq[i] = piece
StartsWith(seq, piece) == Len(seq) > 0 /\ seq[1] = piece

\* ------------------------------------------------------------------ config
\* Config.poll_interval_seconds and Config.backoff_max_seconds.
Timing(poll_interval_seconds, backoff_max_seconds) ==
    [poll_interval_seconds |-> poll_interval_seconds,
     backoff_max_seconds |-> backoff_max_seconds]
DefaultTiming == Timing(DefaultPollInterval, DefaultBackoffMax)
\* Config.get_poll_params(): the query string of a poll.
PollParams == "poll_params"
base_url == <<"http", "host">>
cart_add_url == base_url \o <<"/", "event", "cart", "add">>
event_page_url == base_url \o <<"/", "event">>
secondhand_url == base_url \o <<"/", "event", "secondhand">>

\* ------------------------------------------------------------------ parser
Listing(ticket_type, action, data) ==
    [ticket_type |-> ticket_type, form_action |-> action, form_data |-> data]

PanelA == Listing("A", <<"/", "event", "secondhand", "buy", "a">>, FormData("tok1", Absent))
PanelB == Listing("B", <<"http", "host", "/", "event", "secondhand", "buy", "b">>, FormData("tok1", Absent))
FormC == Listing("Ticket", <<>>, FormData(Absent, "1"))
LinkD == Listing("Unknown", <<"/", "event", "cart", "d">>, FormData(Absent, Absent))
FormE == Listing("Ticket", <<"/", "event", "secondhand", "buy", "e">>, FormData("tok1", "1"))

\* The text of a page, by what _is_baseline_response reads from it:
\*   moment    NO_TICKETS_MARKER ("No tickets available at the moment") is in it
\*   static    everything no DYNAMIC_PATTERNS entry matches
\*   data_now  the value of the data-now attribute
\*   token     the value of the csrfmiddlewaretoken field, None without the field
\*   version   the hexadecimal value of the ?version= fragments
Body(moment, static, data_now, token, version) ==
    [moment |-> moment, static |-> static, data_now |-> data_now, token |-> token,
     version |-> version]

\* A page, by what each stage of parse_secondhand_page reads from it:
\*   marker        "No tickets available" in html
\*   scan_token    CSRF_PATTERN.search(html)
\*   buy_fragment  "/secondhand/buy/" in html
\*   fast          _extract_listings_fast(html)
\*   dom_token     _extract_csrf_token(soup)
\*   dom_marker    the alert-warning div holds the marker text
\*   dom           _extract_listings(soup)
\* and body, its text.
Page(marker, scan_token, buy_fragment, fast, dom_token, dom_marker, dom, body) ==
    [marker |-> marker, scan_token |-> scan_token, buy_fragment |-> buy_fragment,
     fast |-> fast, dom_token |-> dom_token, dom_marker |-> dom_marker, dom |-> dom,
     body |-> body]

PageNoTickets ==
    Page(TRUE, "tok1", FALSE, <<>>, "tok1", TRUE, <<>>,
         Body(TRUE, "no_tickets", "t1", "tok1", "v1"))
PageTwoPanels ==
    Page(FALSE, "tok1", TRUE, <<PanelA, PanelB>>, "tok1", FALSE, <<PanelA, PanelB>>,
         Body(FALSE, "two_panels", "t1", "tok1", "v1"))
PageDomForm ==
    Page(FALSE, None, FALSE, <<>>, "tok2", FALSE, <<FormC, LinkD>>,
         Body(FALSE, "dom_form", "t1", None, "v1"))
PageDomLink ==
    Page(FALSE, None, FALSE, <<>>, None, FALSE, <<LinkD>>,
         Body(FALSE, "dom_link", "t1", None, "v1"))
\* The meta tag and the form of this page hold different tokens.
PageDomMeta ==
    Page(FALSE, None, FALSE, <<>>, "tok2", FALSE, <<FormE>>,
         Body(FALSE, "dom_meta", "t1", None, "v1"))
PageBlank ==
    Page(FALSE, None, FALSE, <<>>, None, FALSE, <<>>,
         Body(FALSE, "blank", "t1", None, "v1"))
Pages == {PageNoTickets, PageTwoPanels, PageDomForm, PageDomLink, PageDomMeta, PageBlank}

ParseResult(tickets_available, listings, csrf_token) ==
    [tickets_available |-> tickets_available, listings |-> listings, csrf_token |-> csrf_token]

\* A parser that tries the fast path before it looks for the marker.
parse_listings_first(html) ==
    IF html.buy_fragment /\ Len(html.fast) > 0
    THEN ParseResult(TRUE, html.fast, html.fast[1].form_data.csrfmiddlewaretoken)
    ELSE IF html.marker
    THEN ParseResult(FALSE, <<>>, html.scan_token)
    ELSE IF html.dom_marker
    THEN ParseResult(FALSE, <<>>, html.dom_token)
    ELSE ParseResult(Len(html.dom) > 0, html.dom, html.dom_token)

\* A parser that asks the structural parse first and the fast path after it.
parse_structural_first(html) ==
    IF html.marker
    THEN ParseResult(FALSE, <<>>, html.scan_token)
    ELSE IF html.dom_marker
    THEN ParseResult(FALSE, <<>>, html.dom_token)
    ELSE IF Len(html.dom) > 0
    THEN ParseResult(TRUE, html.dom, html.dom_token)
    ELSE IF html.buy_fragment /\ Len(html.fast) > 0
    THEN ParseResult(TRUE, html.fast, html.fast[1].form_data.csrfmiddlewaretoken)
    ELSE ParseResult(FALSE, <<>>, html.dom_token)

\* A parser that reports tickets on every page it finds no marker in.
parse_unmarked_is_available(html) ==
    IF html.marker
    THEN ParseResult(FALSE, <<>>, html.scan_token)
    ELSE IF html.buy_fragment /\ Len(html.fast) > 0
    THEN ParseResult(TRUE, html.fast, html.fast[1].form_data.csrfmiddlewaretoken)
    ELSE IF html.dom_marker
    THEN ParseResult(FALSE, <<>>, html.dom_token)
    ELSE ParseResult(TRUE, html.dom, html.dom_token)

\* parse_secondhand_page(html), over what its stages read from the page.
parse_secondhand_page(html) ==
    IF html.marker
    THEN ParseResult(FALSE, <<>>, html.scan_token)
    ELSE IF html.buy_fragment /\ Len(html.fast) > 0
    THEN ParseResult(TRUE, html.fast, html.fast[1].form_data.csrfmiddlewaretoken)
    ELSE IF html.dom_marker
    THEN ParseResult(FALSE, <<>>, html.dom_token)
    ELSE ParseResult(Len(html.dom) > 0, html.dom, html.dom_token)

\* ------------------------------------------------------------- page markup
\* A marketplace page as markup: where the text "No tickets available"
\* stands (nowhere; in the alert-warning div; elsewhere in the text; in the
\* alert-warning div with a character reference inside, so that the parsed
\* text reads it and the source does not), the csrf-token meta tag, and the
\* elements of the body in document order.
Html(marker, meta_token, items) ==
    [kind |-> "html", marker |-> marker, meta_token |-> meta_token, items |-> items]

\* A form element: method, action, whether its class holds form-inline, its
\* submit control ("button": a button element of type submit or reading Buy;
\* "input": an input of type submit; "none"), and its hidden fields.
Form(method, action, inline, control, csrf, item) ==
    [method |-> method, action |-> action, inline |-> inline, control |-> control,
     csrf |-> csrf, item |-> item]
NoForm == Form("none", <<>>, FALSE, "none", Absent, Absent)

\* div.panel with its h3.panel-title, its h2.text-primary and its form.
PanelElem(class, title, price, form) ==
    [kind |-> "panel", class |-> class, title |-> title, price |-> price, form |-> form]
\* An element whose class names a ticket, a listing or a product row.
WrapperElem(form) == [kind |-> "wrapper", form |-> form]
AnchorElem(href) == [kind |-> "a", href |-> href]
FormElem(form) == [kind |-> "form", form |-> form]
\* A hidden csrfmiddlewaretoken input outside any form.
InputElem(token) == [kind |-> "input", token |-> token]

\* The tags of the source text the patterns of the parser can meet, in order.
Tag(name, value) == [name |-> name, value |-> value]
FormTags(form) ==
    IF form.method = "none" THEN <<>>
    ELSE <<Tag("form", form)>>
         \o (IF form.csrf # Absent THEN <<Tag("csrf", form.csrf)>> ELSE <<>>)
ElemTags(e) ==
    IF e.kind = "panel"
    THEN <<Tag("div", e.class)>>
         \o (IF e.title # Absent THEN <<Tag("h3", e.title)>> ELSE <<>>)
         \o (IF e.price THEN <<Tag("h2", "price")>> ELSE <<>>)
         \o FormTags(e.form)
    ELSE IF e.kind = "wrapper" THEN <<Tag("div", "ticket-listing")>> \o FormTags(e.form)
    ELSE IF e.kind = "a" THEN <<Tag("a", e.href)>>
    ELSE IF e.kind = "form" THEN FormTags(e.form)
    ELSE <<Tag("csrf", e.token)>>
RECURSIVE Tags(_)
Tags(items) == IF items = <<>> THEN <<>> ELSE ElemTags(Head(items)) \o Tags(Tail(items))

\* secondhand/buy/ in a URL.
HasBuyPath(url) ==
    \E i \in 1..(Len(url) - 2) : url[i] = "secondhand" /\ url[i + 1] = "buy"
\* /secondhand/buy/ in a URL.
HasBuyFragment(url) ==
    \E i \in 2..(Len(url) - 2) : url[i] = "secondhand" /\ url[i + 1] = "buy"

\* What the patterns look for in a tag:
\*   panel  <div class="panel panel-default">
\*   title  <h3 class="panel-title">
\*   price  <h2 class="text-primary">
\*   form   <form ... action="...secondhand/buy/...">
\*   csrf   name="csrfmiddlewaretoken" value="..."
TagIs(what, t) ==
    IF what = "panel" THEN t.name = "div" /\ t.value = "panel-default"
    ELSE IF what = "title" THEN t.name = "h3"
    ELSE IF what = "price" THEN t.name = "h2"
    ELSE IF what = "form" THEN t.name = "form" /\ HasBuyPath(t.value.action)
    ELSE t.name = "csrf"

\* The first tag at or after position from that is what is looked for, 0 when
\* there is none.
FirstAt(tags, from, what) ==
    LET found == {i \in from..Len(tags) : TagIs(what, tags[i])} IN
    IF found = {} THEN 0 ELSE CHOOSE i \in found : \A j \in found : i <= j

\* CSRF_PATTERN.search(html)
scan_csrf(tags) ==
    LET i == FirstAt(tags, 1, "csrf") IN IF i = 0 THEN None ELSE tags[i].value

\* A fast path that stops at the first panel: search() where the code has
\* finditer().
PanelMatchesFirstOnly(tags, from) ==
    LET i1 == FirstAt(tags, from, "panel")
        i2 == IF i1 = 0 THEN 0 ELSE FirstAt(tags, i1 + 1, "title")
        i3 == IF i2 = 0 THEN 0 ELSE FirstAt(tags, i2 + 1, "price")
        i4 == IF i3 = 0 THEN 0 ELSE FirstAt(tags, i3 + 1, "form")
        i5 == IF i4 = 0 THEN 0 ELSE FirstAt(tags, i4 + 1, "csrf")
    IN IF i5 = 0 THEN <<>>
       ELSE <<Listing(tags[i2].value, tags[i4].value.action,
                      FormData(tags[i5].value, Absent))>>

\* TICKET_PANEL_PATTERN.finditer(html): each match runs from a listing-panel
\* div over the next title, the next price after it, the next buy form after
\* that and the next token field after that; the search goes on behind it.
RECURSIVE PanelMatches(_, _)
PanelMatches(tags, from) ==
    LET i1 == FirstAt(tags, from, "panel")
        i2 == IF i1 = 0 THEN 0 ELSE FirstAt(tags, i1 + 1, "title")
        i3 == IF i2 = 0 THEN 0 ELSE FirstAt(tags, i2 + 1, "price")
        i4 == IF i3 = 0 THEN 0 ELSE FirstAt(tags, i3 + 1, "form")
        i5 == IF i4 = 0 THEN 0 ELSE FirstAt(tags, i4 + 1, "csrf")
    IN IF i5 = 0 THEN <<>>
       ELSE <<Listing(tags[i2].value, tags[i4].value.action,
                      FormData(tags[i5].value, Absent))>>
            \o PanelMatches(tags, i5 + 1)

\* BUY_FORM_PATTERN.finditer(html): a post form with a buy action whose first
\* child is the token field.
RECURSIVE FormMatches(_, _)
FormMatches(tags, from) ==
    IF from > Len(tags) THEN <<>>
    ELSE LET t == tags[from] IN
         IF /\ TagIs("form", t)
            /\ t.value.method = "post"
            /\ from < Len(tags)
            /\ TagIs("csrf", tags[from + 1])
         THEN <<Listing("Ticket", t.value.action, FormData(tags[from + 1].value, Absent))>>
              \o FormMatches(tags, from + 2)
         ELSE FormMatches(tags, from + 1)

\* _extract_listings_fast(html)
extract_listings_fast(html) ==
    LET tags == Tags(html.items)
        listings == PanelMatches(tags, 1)
    IN IF listings # <<>> THEN listings ELSE FormMatches(tags, 1)

\* An attribute value as the parsed document gives it: character references
\* are resolved.
RECURSIVE Unescape(_)
Unescape(url) ==
    IF url = <<>> THEN <<>>
    ELSE <<IF Head(url) = "&amp;" THEN "&" ELSE Head(url)>> \o Unescape(Tail(url))

\* _parse_form_listing(form)
parse_form_listing(form) ==
    Listing("Ticket", Unescape(form.action), FormData(form.csrf, form.item))

\* _extract_listings, strategy 1: post forms that are no filter forms and
\* hold a button that reads Buy or is of type submit.
RECURSIVE BuyForms(_)
BuyForms(items) ==
    IF items = <<>> THEN <<>>
    ELSE LET e == Head(items) IN
         (IF /\ e.kind \in {"panel", "wrapper", "form"}
             /\ e.form.method = "post"
             /\ ~e.form.inline
             /\ e.form.control = "button"
          THEN <<parse_form_listing(e.form)>> ELSE <<>>)
         \o BuyForms(Tail(items))

\* _extract_listings, strategy 2: the form inside each ticket, listing or
\* product-row element, unless strategy 1 listed it.
RECURSIVE WithWrapped(_, _)
WithWrapped(listings, items) ==
    IF items = <<>> THEN listings
    ELSE LET e == Head(items)
             listing == parse_form_listing(e.form)
         IN IF e.kind = "wrapper" /\ e.form.method # "none"
                                  /\ ~Contains(listings, listing)
            THEN WithWrapped(listings \o <<listing>>, Tail(items))
            ELSE WithWrapped(listings, Tail(items))

\* _extract_listings, strategy 3: every anchor whose href holds "cart".
RECURSIVE CartLinks(_)
CartLinks(items) ==
    IF items = <<>> THEN <<>>
    ELSE LET e == Head(items) IN
         (IF e.kind = "a" /\ Contains(e.href, "cart")
          THEN <<Listing("Unknown", Unescape(e.href), FormData(Absent, Absent))>>
          ELSE <<>>)
         \o CartLinks(Tail(items))

\* _extract_listings(soup)
extract_listings(html) ==
    WithWrapped(BuyForms(html.items), html.items) \o CartLinks(html.items)

\* _extract_csrf_token(soup): the meta tag, then the first hidden input.
extract_csrf_token(html) ==
    IF html.meta_token # None THEN html.meta_token ELSE scan_csrf(Tags(html.items))

\* What each stage of parse_secondhand_page reads from the markup.
Stages(html) ==
    LET tags == Tags(html.items) IN
    Page(html.marker \in {"alert", "text"},
         scan_csrf(tags),
         \E i \in DOMAIN tags :
             \/ tags[i].name = "form" /\ HasBuyFragment(tags[i].value.action)
             \/ tags[i].name = "a" /\ HasBuyFragment(tags[i].value),
         extract_listings_fast(html),
         extract_csrf_token(html),
         html.marker \in {"alert", "alert_entity"},
         extract_listings(html),
         Body(html.marker \in {"alert", "text"}, html.items, "t1", scan_csrf(tags), "v1"))


\* find_marketplace_link: the marketplace anchor of the event page, resolved.
find_marketplace_link(html) == IF html.link THEN secondhand_url ELSE NoUrl

\* ---------------------------------------------------------------- __main__
\* The parsed command line: the flags main() reads.
Args == [dry_run : BOOLEAN, headless : BOOLEAN, imessage : BOOLEAN,
         poll_inactive_marketplace : BOOLEAN]

\* Config(...) as main() builds it from the parsed arguments.
MakeConfig(a) ==
    [headless |-> a.headless,
     imessage_recipient |-> a.imessage,
     poll_inactive_interval |-> a.poll_inactive_marketplace]

\* ----------------------------------------------------------------- session
\* What one transmission meets: a response, or an exception of the transport.
Errors == {"ConnectionTerminated", "RemoteProtocolError", "ReadTimeout"}
Raise(error) == [kind |-> "raise", error |-> error]
Raises == {Raise(e) : e \in Errors}
NoResponse == [kind |-> "none"]

\* An _is_connection_terminated_error that takes every error for a termination.
is_any_error(error) == TRUE

is_connection_terminated_error(error) ==
    error = "ConnectionTerminated" \/ error = "RemoteProtocolError"

IsRaise(o) == o.kind = "raise"

\* A post() that writes the stored token over the caller's.
InjectCsrfAlways(data, token) ==
    IF token # None /\ token # ""
    THEN [data EXCEPT !.csrfmiddlewaretoken = token]
    ELSE data

\* post(): the anti-forgery field is added only when the caller left it out.
InjectCsrf(data, token) ==
    IF token # None /\ token # "" /\ data.csrfmiddlewaretoken = Absent
    THEN [data EXCEPT !.csrfmiddlewaretoken = token]
    ELSE data

\* A _do_get that retransmits on the connection that was terminated.
do_get_same_connection(conn, url, params, outs, retry_on_disconnect) ==
    LET o == Head(outs)
        tx(x) == [url |-> url, data |-> params, conn |-> conn,
                  met |-> IF IsRaise(x) THEN x.error ELSE "response"]
    IN
    IF ~IsRaise(o)
    THEN [sent |-> <<tx(o)>>, reconnects |-> 0, raised |-> None, response |-> o]
    ELSE IF retry_on_disconnect /\ is_connection_terminated_error(o.error)
    THEN LET o2 == Head(Tail(outs)) IN
         [sent |-> <<tx(o), tx(o2)>>, reconnects |-> 0,
          raised |-> IF IsRaise(o2) THEN o2.error ELSE None,
          response |-> IF IsRaise(o2) THEN NoResponse ELSE o2]
    ELSE [sent |-> <<tx(o)>>, reconnects |-> 0, raised |-> o.error, response |-> NoResponse]

\* _do_get over the outcomes its transmissions meet, in order: the requests
\* transmitted, each with the connection it travelled on and what it met, how
\* many reconnections, and what the caller gets. conn numbers the clients
\* _get_client() hands out during one call.
RECURSIVE do_get(_, _, _, _, _)
do_get(conn, url, params, outs, retry_on_disconnect) ==
    LET o == Head(outs)
        tx == [url |-> url, data |-> params, conn |-> conn,
               met |-> IF IsRaise(o) THEN o.error ELSE "response"]
    IN
    IF ~IsRaise(o)
    THEN [sent |-> <<tx>>, reconnects |-> 0, raised |-> None, response |-> o]
    ELSE IF retry_on_disconnect /\ is_connection_terminated_error(o.error)
    THEN LET r == do_get(conn + 1, url, params, Tail(outs), FALSE) IN
         [r EXCEPT !.sent = <<tx>> \o r.sent, !.reconnects = r.reconnects + 1]
    ELSE [sent |-> <<tx>>, reconnects |-> 0, raised |-> o.error, response |-> NoResponse]

\* _do_post likewise.
RECURSIVE do_post(_, _, _, _, _, _)
do_post(conn, url, data, token, outs, retry_on_disconnect) ==
    LET o == Head(outs)
        d == InjectCsrf(data, token)
        tx == [url |-> url, data |-> d, conn |-> conn,
               met |-> IF IsRaise(o) THEN o.error ELSE "response"]
    IN
    IF ~IsRaise(o)
    THEN [sent |-> <<tx>>, reconnects |-> 0, raised |-> None, response |-> o]
    ELSE IF retry_on_disconnect /\ is_connection_terminated_error(o.error)
    THEN LET r == do_post(conn + 1, url, d, token, Tail(outs), FALSE) IN
         [r EXCEPT !.sent = <<tx>> \o r.sent, !.reconnects = r.reconnects + 1]
    ELSE [sent |-> <<tx>>, reconnects |-> 0, raised |-> o.error, response |-> NoResponse]

\* ------------------------------------------------------- SecondhandSession
\* The session object: _client ("none" or "open") and its SessionState.
Session(c, n, jar, token, errors) ==
    [client |-> c, request_count |-> n, cookies |-> jar, csrf_token |-> token,
     consecutive_errors |-> errors]

\* _get_client(): the client a call starts on. 0 is the client the session
\* already holds; a client created during the call gets the next number.
FirstConn(c) == IF c = "none" THEN 1 ELSE 0

\* A _reconnect that starts the session over.
reconnect_resetting(s) ==
    [s EXCEPT !.client = "none", !.request_count = 0, !.cookies = NoCookies]

\* _reconnect(reason): the client is closed and dropped.
reconnect(s) == [s EXCEPT !.client = "none"]

\* close()
close(s) == [s EXCEPT !.client = "none"]

\* An _update_cookies that keeps the value a name already has.
update_cookies_first_wins(jar, response) ==
    [n \in CookieNames |-> IF jar[n] # Absent THEN jar[n] ELSE response.cookies[n]]

\* _update_cookies(response): every cookie of the response is stored under
\* its name.
update_cookies(jar, response) ==
    [n \in CookieNames |->
        IF response.cookies[n] # Absent THEN response.cookies[n] ELSE jar[n]]

\* A get() that never reconnects ahead of the limit.
proactive_never(n) == FALSE

\* get(): the test for the proactive reconnect.
proactive_due(n) == n > 0 /\ n % MAX_REQUESTS_BEFORE_RECONNECT = 0

\* get(url, params): the session it leaves and what went over the wire.
get(s, url, params, outs) ==
    LET proactive == proactive_due(s.request_count)
        s1 == IF proactive THEN reconnect(s) ELSE s
        r == do_get(FirstConn(s1.client), url, params, outs, TRUE)
        s2 == IF r.reconnects > 0 THEN reconnect(s1) ELSE s1
        s3 == IF r.raised # None
              THEN [s2 EXCEPT !.client = "open"]
              ELSE [s2 EXCEPT !.client = "open",
                              !.request_count = @ + 1,
                              !.cookies = update_cookies(@, r.response)]
    IN [state |-> s3, proactive |-> proactive, sent |-> r.sent,
        reconnects |-> r.reconnects, raised |-> r.raised, response |-> r.response]

\* A post() that counts its request.
post_counting(s, url, data, outs) ==
    LET r == do_post(FirstConn(s.client), url, data, s.csrf_token, outs, TRUE)
        s3 == IF r.raised # None
              THEN [s EXCEPT !.client = "open"]
              ELSE [s EXCEPT !.client = "open",
                             !.request_count = @ + 1,
                             !.cookies = update_cookies(@, r.response)]
    IN [state |-> s3, proactive |-> FALSE, sent |-> r.sent,
        reconnects |-> r.reconnects, raised |-> r.raised, response |-> r.response]

\* post(url, data): likewise.
post(s, url, data, outs) ==
    LET r == do_post(FirstConn(s.client), url, data, s.csrf_token, outs, TRUE)
        s2 == IF r.reconnects > 0 THEN reconnect(s) ELSE s
        s3 == IF r.raised # None
              THEN [s2 EXCEPT !.client = "open"]
              ELSE [s2 EXCEPT !.client = "open",
                              !.cookies = update_cookies(@, r.response)]
    IN [state |-> s3, proactive |-> FALSE, sent |-> r.sent,
        reconnects |-> r.reconnects, raised |-> r.raised, response |-> r.response]

\* A get_backoff_seconds without the ceiling.
get_backoff_uncapped(errors, t) ==
    IF errors = 0 THEN t.poll_interval_seconds ELSE BackoffBase * 2 ^ (errors - 1)

\* get_backoff_seconds()
get_backoff_seconds(errors, t) ==
    IF errors = 0
    THEN t.poll_interval_seconds
    ELSE LET step == BackoffBase * 2 ^ (errors - 1) IN
         IF step <= t.backoff_max_seconds THEN step ELSE t.backoff_max_seconds

\* ----------------------------------------------------------------- monitor
\* self._baseline_hash before the first no-tickets page.
NoHash == <<>>

\* hashlib.md5(...).hexdigest(): a digest stands for the text it was taken of.
md5(text) == <<"md5", text>>

\* A normalisation that leaves the value of the token field in the text.
strip_keeping_token(body) ==
    [body EXCEPT !.data_now = "", !.version = ""]

\* _is_baseline_response: pattern.sub("", normalized) for each of
\* DYNAMIC_PATTERNS. A page without the token field has nothing to strip there.
strip_dynamic(body) ==
    [body EXCEPT !.data_now = "",
                 !.token = IF @ = None THEN None ELSE "",
                 !.version = ""]

\* A baseline check that takes a page that differs as the new baseline.
is_baseline_rebasing(baseline, html) ==
    IF ~html.body.moment
    THEN [matches |-> FALSE, baseline_hash |-> baseline]
    ELSE LET content_hash == md5(strip_dynamic(html.body)) IN
         IF baseline = NoHash
         THEN [matches |-> TRUE, baseline_hash |-> content_hash]
         ELSE [matches |-> content_hash = baseline, baseline_hash |-> content_hash]

\* _is_baseline_response(html): what it returns and the baseline it leaves.
is_baseline_response(baseline, html) ==
    IF ~html.body.moment
    THEN [matches |-> FALSE, baseline_hash |-> baseline]
    ELSE LET content_hash == md5(strip_dynamic(html.body)) IN
         IF baseline = NoHash
         THEN [matches |-> TRUE, baseline_hash |-> content_hash]
         ELSE [matches |-> content_hash = baseline, baseline_hash |-> baseline]

\* A _poll_once whose 409 branch records an error like the others.
StatusBranchRecording409(status_code) ==
    IF status_code = 429 THEN [branch |-> "429", sleep |-> 60, record |-> TRUE]
    ELSE IF status_code = 409 THEN [branch |-> "409", sleep |-> 5, record |-> TRUE]
    ELSE IF status_code = 503 THEN [branch |-> "503", sleep |-> 30, record |-> TRUE]
    ELSE [branch |-> "non200", sleep |-> 0, record |-> TRUE]

\* int(retry_after_header): the header values int() accepts, and their value.
IntValued == {"7", "0", "-5"}
int(text) == CASE text = "7" -> 7 [] text = "0" -> 0 [] text = "-5" -> 0 - 5

\* _poll_once: the branch for an error status: the seconds it sleeps and
\* whether it records an error.
StatusBranch(status_code) ==
    IF status_code = 429 THEN [branch |-> "429", sleep |-> 60, record |-> TRUE]
    ELSE IF status_code = 409 THEN [branch |-> "409", sleep |-> 5, record |-> FALSE]
    ELSE IF status_code = 503 THEN [branch |-> "503", sleep |-> 30, record |-> TRUE]
    ELSE [branch |-> "non200", sleep |-> 0, record |-> TRUE]

\* An _add_to_cart that joins every action that is not absolute to the base URL.
CartUrlJoined(form_action) ==
    IF StartsWith(form_action, "http") THEN form_action
    ELSE base_url \o form_action

\* _add_to_cart: the reservation URL of a listing.
CartUrl(form_action) ==
    IF StartsWith(form_action, "http") THEN form_action
    ELSE IF StartsWith(form_action, "/") THEN base_url \o form_action
    ELSE cart_add_url

\* An _add_to_cart that tests for the marketplace segment first.
ClassifyMarketplaceFirst(final_url, status_code) ==
    IF Contains(final_url, "secondhand") THEN [success |-> FALSE, redirect_url |-> NoUrl]
    ELSE IF Contains(final_url, "checkout") THEN [success |-> TRUE, redirect_url |-> final_url]
    ELSE [success |-> FALSE, redirect_url |-> NoUrl]

\* An _add_to_cart that takes a 200/302 on an unexpected page for a success.
ClassifyOkAsSuccess(final_url, status_code) ==
    IF Contains(final_url, "checkout") THEN [success |-> TRUE, redirect_url |-> final_url]
    ELSE IF Contains(final_url, "secondhand") THEN [success |-> FALSE, redirect_url |-> NoUrl]
    ELSE IF status_code \in {200, 302} THEN [success |-> TRUE, redirect_url |-> final_url]
    ELSE [success |-> FALSE, redirect_url |-> NoUrl]

\* _add_to_cart: (success, redirect_url) from the response reached.
ClassifyCartResponse(final_url, status_code) ==
    IF Contains(final_url, "checkout") THEN [success |-> TRUE, redirect_url |-> final_url]
    ELSE IF Contains(final_url, "secondhand") THEN [success |-> FALSE, redirect_url |-> NoUrl]
    ELSE IF status_code \in {200, 302} THEN [success |-> FALSE, redirect_url |-> NoUrl]
    ELSE [success |-> FALSE, redirect_url |-> NoUrl]

\* A _handle_tickets_found that grabs the last listing of the page.
ListingToGrabLast(listings) == listings[Len(listings)]

\* _handle_tickets_found: the listing handed to _add_to_cart.
ListingToGrab(listings) == listings[1]

\* ------------------------------------------------------------- environment
Response(status_code, retry_after, html, url) ==
    [kind |-> "response", status_code |-> status_code, retry_after |-> retry_after,
     html |-> html, url |-> url]

\* The event page, by whether it holds the marketplace anchor.
EventPage(link) == [link |-> link]
EventResponses ==
    {Response(200, None, EventPage(TRUE), event_page_url),
     Response(200, None, EventPage(FALSE), event_page_url),
     Response(404, None, EventPage(FALSE), event_page_url),
     Response(503, None, EventPage(TRUE), event_page_url)}

\* Retry-After header values: none, an integer, not an integer.
RetryAfters == {None, "7", "soon"}
PollResponses ==
    {Response(200, ra, html, secondhand_url) : ra \in RetryAfters, html \in Pages}
    \cup {Response(sc, ra, PageBlank, secondhand_url) : sc \in {409, 429, 503, 500}, ra \in RetryAfters}

\* Where a reservation POST can end after its redirects.
FinalUrls ==
    {base_url \o <<"/", "event", "checkout", "questions">>,
     base_url \o <<"/", "event", "secondhand">>,
     base_url \o <<"/", "event", "checkout", "start", "?", "next", "secondhand">>,
     base_url \o <<"/", "event", "cart">>}
CartResponses ==
    {Response(sc, None, PageBlank, u) : sc \in {200, 302, 500}, u \in FinalUrls}

\* The outcomes of the transmissions of one get/post call: the second is read
\* only when the first raised.
Outcomes(responses) ==
    {<<a>> : a \in responses}
    \cup {<<a, b>> : a \in Raises, b \in responses \cup Raises}

\* No page is in the parser's hands.
NoHtml == [kind |-> "none"]

\* -------------------------------------------------------------------- state
VARIABLES
    args,                \* main: the parsed command line
    pc,                  \* where main/run stands
    running,             \* SecondhandMonitor._running
    marketplace_url,     \* SecondhandMonitor._marketplace_url
    imessage_sent,       \* SecondhandMonitor._imessage_sent
    client,              \* SecondhandSession._client: "none" or "open"
    csrf_token,          \* SessionState.csrf_token
    consecutive_errors,  \* SessionState.consecutive_errors
    result,              \* run: what _poll_once returned, <<>> for None or once used
    gets,                \* GET transmissions so far
    posts,               \* POST transmissions so far
    detected,            \* a 200 response parsed as tickets available awaits its attempt
    attempt,             \* the reservation attempt the step just taken made, if any
    reserved,            \* a reservation attempt was classified success
    emitted,             \* success notifications emitted
    handoff,             \* how _handoff_to_browser ended
    sigint,              \* the operator interrupt was raised
    terminal,            \* why the run ended
    failed,              \* the request of the step just taken ended in a transport error
    request_count,       \* SessionState.request_count
    cookies,             \* SessionState.cookies
    timing,              \* Config: poll_interval_seconds and backoff_max_seconds
    call,                \* the session call just made, as it went over the wire
    backoff,             \* what get_backoff_seconds() last returned
    baseline_hash,       \* SecondhandMonitor._baseline_hash
    polled,              \* the page request the step just taken made, if any
    html,                \* the page text handed to the parser
    parsed,              \* what the parser made of it
    carried,             \* transmissions put on the client the session holds
    stopped              \* stop() was called

vars == <<args, pc, running, marketplace_url, imessage_sent, client, csrf_token,
          consecutive_errors, result, gets, posts, detected, attempt, reserved,
          emitted, handoff, sigint, terminal, failed, request_count, cookies,
          timing, call, backoff, baseline_hash, polled, html, parsed, carried,
          stopped>>

\* What run() never writes and the pages served to it never set: the cookie
\* store stays as the responses leave it, the Config is frozen. The tally of
\* the transmissions on a connection is kept for the session on its own, and
\* only stop() notes that it was called.
sessionView == <<cookies, timing, call, backoff, html, parsed, carried, stopped>>

config == MakeConfig(args)

Init ==
    /\ args \in Args
    /\ pc = "main"
    /\ running = FALSE
    /\ marketplace_url = NoUrl
    /\ imessage_sent = FALSE
    /\ client = "none"
    /\ csrf_token = None
    /\ consecutive_errors = 0
    /\ result = <<>>
    /\ gets = 0
    /\ posts = 0
    /\ detected = FALSE
    /\ attempt = <<>>
    /\ reserved = FALSE
    /\ emitted = 0
    /\ handoff = "none"
    /\ sigint = FALSE
    /\ terminal = "none"
    /\ failed = FALSE
    /\ request_count = 0
    /\ cookies = NoCookies
    /\ timing = DefaultTiming
    /\ call = <<>>
    /\ backoff = <<>>
    /\ baseline_hash = NoHash
    /\ polled = <<>>
    /\ html = NoHtml
    /\ parsed = <<>>
    /\ carried = 0
    /\ stopped = FALSE

\* ------------------------------------------------------- session operations
\* close(): the client handle is dropped.
SessionClose == client' = "none"

\* record_error()
RecordError == consecutive_errors' = consecutive_errors + 1

\* ------------------------------------------------------------------ actions
\* main() calls monitor.run(); run() sets _running and reaches step 1.
RunStart ==
    /\ pc = "main"
    /\ running' = TRUE
    /\ pc' = "discover"
    /\ attempt' = <<>>
    /\ UNCHANGED <<args, marketplace_url, imessage_sent, client, csrf_token,
                   consecutive_errors, result, gets, posts, detected,
                   reserved, emitted, handoff, sigint, terminal>>
    /\ failed' = FALSE
    /\ polled' = <<>>
    /\ UNCHANGED <<request_count, baseline_hash, sessionView>>

\* What one fetch of the event page met: the error raised or the status, and
\* whether the page holds the marketplace link.
Fetched(r) ==
    [raised |-> r.raised,
     status_code |-> IF r.raised = None THEN r.response.status_code ELSE 0,
     link |-> r.raised = None /\ r.response.html.link]

\* A run() that returns on a missing link without closing the session.
DiscoverMarketplaceLeavesOpen(outs) ==
    LET r == do_get(FirstConn(client), event_page_url, None, outs, TRUE)
        url == IF r.raised = None /\ r.response.status_code = 200
               THEN find_marketplace_link(r.response.html)
               ELSE NoUrl
    IN
    /\ pc = "discover"
    /\ gets + Len(r.sent) <= MaxGets
    /\ gets' = gets + Len(r.sent)
    /\ marketplace_url' = IF url # NoUrl THEN url ELSE marketplace_url
    /\ IF url # NoUrl
       THEN pc' = "loop_top" /\ client' = "open" /\ terminal' = terminal
       ELSE IF config.poll_inactive_interval
       THEN pc' = "wait_top" /\ client' = "open" /\ terminal' = terminal
       ELSE pc' = "finally" /\ client' = "open" /\ terminal' = "failure"
    /\ attempt' = <<>>
    /\ UNCHANGED <<args, running, imessage_sent, csrf_token, consecutive_errors,
                   result, posts, detected, reserved, emitted, handoff,
                   sigint>>
    /\ failed' = (r.raised # None)
    /\ request_count' = IF r.raised = None THEN request_count + 1 ELSE request_count
    /\ polled' = <<Fetched(r)>>
    /\ UNCHANGED <<baseline_hash, sessionView>>

\* run() step 1: _discover_marketplace(), then the branch run() takes on it.
DiscoverMarketplace(outs) ==
    LET r == do_get(FirstConn(client), event_page_url, None, outs, TRUE)
        url == IF r.raised = None /\ r.response.status_code = 200
               THEN find_marketplace_link(r.response.html)
               ELSE NoUrl
    IN
    /\ pc = "discover"
    /\ gets + Len(r.sent) <= MaxGets
    /\ gets' = gets + Len(r.sent)
    /\ marketplace_url' = IF url # NoUrl THEN url ELSE marketplace_url
    /\ IF url # NoUrl
       THEN pc' = "loop_top" /\ client' = "open" /\ terminal' = terminal
       ELSE IF config.poll_inactive_interval
       THEN pc' = "wait_top" /\ client' = "open" /\ terminal' = terminal
       ELSE pc' = "finally" /\ SessionClose /\ terminal' = "failure"
    /\ attempt' = <<>>
    /\ UNCHANGED <<args, running, imessage_sent, csrf_token, consecutive_errors,
                   result, posts, detected, reserved, emitted, handoff,
                   sigint>>
    /\ failed' = (r.raised # None)
    /\ request_count' = IF r.raised = None THEN request_count + 1 ELSE request_count
    /\ polled' = <<Fetched(r)>>
    /\ UNCHANGED <<baseline_hash, sessionView>>

\* _poll_for_marketplace_link(): the while test; False returned closes and returns.
WaitTop ==
    /\ pc = "wait_top"
    /\ IF running
       THEN pc' = "wait_sleep" /\ client' = client
       ELSE pc' = "finally" /\ SessionClose
    /\ attempt' = <<>>
    /\ UNCHANGED <<args, running, marketplace_url, imessage_sent, csrf_token,
                   consecutive_errors, result, gets, posts, detected,
                   reserved, emitted, handoff, sigint, terminal>>
    /\ failed' = FALSE
    /\ polled' = <<>>
    /\ UNCHANGED <<request_count, baseline_hash, sessionView>>

\* _poll_for_marketplace_link(): the jittered sleep before each re-check.
WaitSleep ==
    /\ pc = "wait_sleep"
    /\ pc' = "wait_get"
    /\ attempt' = <<>>
    /\ UNCHANGED <<args, running, marketplace_url, imessage_sent, client, csrf_token,
                   consecutive_errors, result, gets, posts, detected,
                   reserved, emitted, handoff, sigint, terminal>>
    /\ failed' = FALSE
    /\ polled' = <<>>
    /\ UNCHANGED <<request_count, baseline_hash, sessionView>>

\* A _poll_for_marketplace_link that gives up on a request error.
WaitGetGivesUp(outs) ==
    LET r == do_get(FirstConn(client), event_page_url, None, outs, TRUE)
        url == IF r.raised = None /\ r.response.status_code = 200
               THEN find_marketplace_link(r.response.html)
               ELSE NoUrl
    IN
    /\ pc = "wait_get"
    /\ gets + Len(r.sent) <= MaxGets
    /\ gets' = gets + Len(r.sent)
    /\ client' = "open"
    /\ IF r.raised # None THEN RecordError ELSE UNCHANGED consecutive_errors
    /\ marketplace_url' = IF url # NoUrl THEN url ELSE marketplace_url
    /\ pc' = IF url # NoUrl THEN "loop_top"
             ELSE IF r.raised # None THEN "finally" ELSE "wait_top"
    /\ attempt' = <<>>
    /\ UNCHANGED <<args, running, imessage_sent, csrf_token, result, posts,
                   detected, reserved, emitted, handoff, sigint, terminal>>
    /\ failed' = (r.raised # None)
    /\ request_count' = IF r.raised = None THEN request_count + 1 ELSE request_count
    /\ polled' = <<Fetched(r)>>
    /\ UNCHANGED <<baseline_hash, sessionView>>

\* _poll_for_marketplace_link(): one re-check of the event page.
WaitGet(outs) ==
    LET r == do_get(FirstConn(client), event_page_url, None, outs, TRUE)
        url == IF r.raised = None /\ r.response.status_code = 200
               THEN find_marketplace_link(r.response.html)
               ELSE NoUrl
    IN
    /\ pc = "wait_get"
    /\ gets + Len(r.sent) <= MaxGets
    /\ gets' = gets + Len(r.sent)
    /\ client' = "open"
    /\ IF r.raised # None THEN RecordError ELSE UNCHANGED consecutive_errors
    /\ marketplace_url' = IF url # NoUrl THEN url ELSE marketplace_url
    /\ pc' = IF url # NoUrl THEN "loop_top" ELSE "wait_top"
    /\ attempt' = <<>>
    /\ UNCHANGED <<args, running, imessage_sent, csrf_token, result, posts,
                   detected, reserved, emitted, handoff, sigint, terminal>>
    /\ failed' = (r.raised # None)
    /\ request_count' = IF r.raised = None THEN request_count + 1 ELSE request_count
    /\ polled' = <<Fetched(r)>>
    /\ UNCHANGED <<baseline_hash, sessionView>>

\* A run() whose loop gives up once an error has been counted.
LoopTopStopsOnErrors ==
    /\ pc = "loop_top"
    /\ IF running /\ consecutive_errors = 0
       THEN pc' = "poll" /\ client' = client
       ELSE pc' = "finally" /\ SessionClose
    /\ attempt' = <<>>
    /\ UNCHANGED <<args, running, marketplace_url, imessage_sent, csrf_token,
                   consecutive_errors, result, gets, posts, detected,
                   reserved, emitted, handoff, sigint, terminal>>
    /\ failed' = FALSE
    /\ polled' = <<>>
    /\ UNCHANGED <<request_count, baseline_hash, sessionView>>

\* run(): the while test of the poll loop; leaving it closes and returns.
LoopTop ==
    /\ pc = "loop_top"
    /\ IF running
       THEN pc' = "poll" /\ client' = client
       ELSE pc' = "finally" /\ SessionClose
    /\ attempt' = <<>>
    /\ UNCHANGED <<args, running, marketplace_url, imessage_sent, csrf_token,
                   consecutive_errors, result, gets, posts, detected,
                   reserved, emitted, handoff, sigint, terminal>>
    /\ failed' = FALSE
    /\ polled' = <<>>
    /\ UNCHANGED <<request_count, baseline_hash, sessionView>>

\* A poll that leaves the stored token as it found it.
update_csrf_token_never(stored, token) == stored

\* A poll that stores whatever the parser returned as the token.
update_csrf_token_always(stored, token) == token

\* _poll_once: if result.csrf_token: self.session.update_csrf_token(...);
\* the token the session holds afterwards.
update_csrf_token(stored, token) ==
    IF token \notin {None, ""} THEN token ELSE stored

\* _poll_once(): what it returns (<<>> for None), the token it stores, the
\* error count and the baseline it leaves, the seconds it slept, the branch
\* that handled the response and the result it logged, for the outcome r of
\* its get. time.sleep() of a negative number raises ValueError, which the
\* except clause of _poll_once catches.
PollOutcome(r) ==
    LET none(errors, baseline, slept, branch, result_str) ==
            [result |-> <<>>, csrf_token |-> csrf_token, errors |-> errors,
             baseline_hash |-> baseline, slept |-> slept, branch |-> branch,
             result_str |-> result_str]
    IN
    IF r.raised # None
    THEN none(consecutive_errors + 1, baseline_hash, 0, "except", "none")
    ELSE LET resp == r.response
             parse_result == parse_secondhand_page(resp.html)
             checked == is_baseline_response(baseline_hash, resp.html)
             is_base == resp.status_code = 200 /\ ~parse_result.tickets_available
             result_str == IF resp.status_code # 200 THEN "HTTP"
                           ELSE IF parse_result.tickets_available THEN "TICKETS FOUND"
                           ELSE IF checked.matches THEN "No tickets"
                           ELSE "No tickets (UNUSUAL)"
             baseline == IF is_base THEN checked.baseline_hash ELSE baseline_hash
             wait_seconds == IF resp.retry_after \in IntValued
                             THEN int(resp.retry_after) ELSE 60
             status == StatusBranch(resp.status_code)
         IN
    IF resp.retry_after \notin {None, ""}
    THEN IF wait_seconds < 0
         THEN none(consecutive_errors + 2, baseline, 0, "retry_after", result_str)
         ELSE none(consecutive_errors + 1, baseline, wait_seconds, "retry_after", result_str)
    ELSE IF resp.status_code # 200
    THEN none(IF status.record THEN consecutive_errors + 1 ELSE consecutive_errors,
              baseline, status.sleep, status.branch, result_str)
    ELSE [result |-> <<parse_result>>,
          csrf_token |-> update_csrf_token(csrf_token, parse_result.csrf_token),
          errors |-> 0,
          baseline_hash |-> baseline, slept |-> 0, branch |-> "ok",
          result_str |-> result_str]

\* What one _poll_once met and did: the response, the token parsed from it,
\* whether the parser found tickets in it, the branch that handled it, the
\* seconds slept, the result logged, self._baseline_hash as it was when the
\* call began, the GET transmissions made and the page received.
Polled(r, o) ==
    [raised |-> r.raised,
     status_code |-> IF r.raised = None THEN r.response.status_code ELSE 0,
     retry_after |-> IF r.raised = None THEN r.response.retry_after ELSE None,
     body |-> IF r.raised = None THEN r.response.html.body ELSE None,
     parsed_token |-> IF r.raised = None /\ r.response.status_code = 200
                      THEN parse_secondhand_page(r.response.html).csrf_token ELSE None,
     tickets |-> /\ r.raised = None
                 /\ r.response.status_code = 200
                 /\ parse_secondhand_page(r.response.html).tickets_available,
     branch |-> o.branch, slept |-> o.slept, result_str |-> o.result_str,
     baseline |-> baseline_hash, sent |-> r.sent,
     page |-> IF r.raised = None THEN r.response.html ELSE None]

\* A _poll_once that drops the marketplace URL when its request fails, to have
\* it discovered again.
PollOnceForgetsUrl(outs) ==
    LET r == do_get(FirstConn(client), marketplace_url, PollParams, outs, TRUE)
        o == PollOutcome(r)
    IN
    /\ pc = "poll"
    /\ marketplace_url # NoUrl
    /\ gets + Len(r.sent) <= MaxGets
    /\ gets' = gets + Len(r.sent)
    /\ client' = "open"
    /\ result' = IF o.result # <<>> /\ o.result[1].tickets_available THEN o.result ELSE <<>>
    /\ csrf_token' = o.csrf_token
    /\ consecutive_errors' = o.errors
    /\ detected' = (/\ r.raised = None
                    /\ r.response.status_code = 200
                    /\ parse_secondhand_page(r.response.html).tickets_available)
    /\ attempt' = <<>>
    /\ pc' = IF o.result # <<>> /\ o.result[1].tickets_available
             THEN "add_to_cart" ELSE "sleep"
    /\ marketplace_url' = IF r.raised # None THEN NoUrl ELSE marketplace_url
    /\ UNCHANGED <<args, running, imessage_sent, posts, reserved,
                   emitted, handoff, sigint, terminal>>
    /\ failed' = (r.raised # None)
    /\ request_count' = IF r.raised = None THEN request_count + 1 ELSE request_count
    /\ polled' = <<Polled(r, o)>>
    /\ baseline_hash' = o.baseline_hash
    /\ UNCHANGED sessionView

\* run(): result = self._poll_once(), and the test that follows it.
PollOnce(outs) ==
    LET r == do_get(FirstConn(client), marketplace_url, PollParams, outs, TRUE)
        o == PollOutcome(r)
    IN
    /\ pc = "poll"
    /\ marketplace_url # NoUrl
    /\ gets + Len(r.sent) <= MaxGets
    /\ gets' = gets + Len(r.sent)
    /\ client' = "open"
    /\ result' = IF o.result # <<>> /\ o.result[1].tickets_available THEN o.result ELSE <<>>
    /\ csrf_token' = o.csrf_token
    /\ consecutive_errors' = o.errors
    /\ detected' = (/\ r.raised = None
                    /\ r.response.status_code = 200
                    /\ parse_secondhand_page(r.response.html).tickets_available)
    /\ attempt' = <<>>
    /\ pc' = IF o.result # <<>> /\ o.result[1].tickets_available
             THEN "add_to_cart" ELSE "sleep"
    /\ UNCHANGED <<args, running, marketplace_url, imessage_sent, posts, reserved,
                   emitted, handoff, sigint, terminal>>
    /\ failed' = (r.raised # None)
    /\ request_count' = IF r.raised = None THEN request_count + 1 ELSE request_count
    /\ polled' = <<Polled(r, o)>>
    /\ baseline_hash' = o.baseline_hash
    /\ UNCHANGED sessionView

\* _add_to_cart(listing): the POST and the classification of where it ended.
add_to_cart(listing, outs) ==
    LET r == do_post(FirstConn(client), CartUrl(listing.form_action), listing.form_data, csrf_token, outs, TRUE)
        c == IF r.raised # None
             THEN [success |-> FALSE, redirect_url |-> NoUrl]
             ELSE ClassifyCartResponse(r.response.url, r.response.status_code)
    IN [listing |-> listing, token |-> csrf_token, sent |-> r.sent, raised |-> r.raised,
        final_url |-> IF r.raised = None THEN r.response.url ELSE NoUrl,
        status_code |-> IF r.raised = None THEN r.response.status_code ELSE 0,
        success |-> c.success, redirect_url |-> c.redirect_url]

\* _handle_tickets_found(result) up to the outcome of _add_to_cart.
HandleTicketsFound(outs) ==
    LET listings == result[1].listings
        a == add_to_cart(ListingToGrab(listings), outs)
    IN
    /\ pc = "add_to_cart"
    /\ IF listings = <<>>
       THEN /\ pc' = "sleep"
            /\ attempt' = <<>>
            /\ UNCHANGED <<posts, client, detected, reserved>>
       ELSE /\ posts + Len(a.sent) <= MaxPosts
            /\ posts' = posts + Len(a.sent)
            /\ client' = "open"
            /\ attempt' = <<[listings |-> listings, cart |-> a]>>
            /\ detected' = FALSE
            /\ reserved' = (reserved \/ a.success)
            /\ pc' = IF a.success THEN "notify" ELSE "sleep"
    /\ result' = <<>>
    /\ UNCHANGED <<args, running, marketplace_url, imessage_sent, csrf_token,
                   consecutive_errors, gets, emitted, handoff, sigint, terminal>>
    /\ failed' = (listings # <<>> /\ a.raised # None)
    /\ polled' = <<>>
    /\ UNCHANGED <<request_count, baseline_hash, sessionView>>

\* _handle_tickets_found: the success branch's notifications (desktop,
\* iMessage, webhook); sent_ok is whether osascript delivered the iMessage.
NotifySuccess(sent_ok) ==
    /\ pc = "notify"
    /\ emitted' = emitted + 1
    /\ imessage_sent' = IF config.imessage_recipient /\ ~imessage_sent
                        THEN sent_ok ELSE imessage_sent
    /\ pc' = "handoff"
    /\ attempt' = <<>>
    /\ UNCHANGED <<args, running, marketplace_url, client, csrf_token,
                   consecutive_errors, result, gets, posts, detected,
                   reserved, handoff, sigint, terminal>>
    /\ failed' = FALSE
    /\ polled' = <<>>
    /\ UNCHANGED <<request_count, baseline_hash, sessionView>>

\* _handoff_to_browser(redirect_url), then self._running = False; an error
\* of the cookie export reaches run()'s except Exception.
HandoffToBrowser(export_ok, browser_ok) ==
    /\ pc = "handoff"
    /\ IF ~export_ok
       THEN /\ handoff' = "raised"
            /\ RecordError
            /\ pc' = "err_sleep"
            /\ UNCHANGED <<running, terminal>>
       ELSE /\ handoff' = IF config.headless THEN "headless"
                          ELSE IF browser_ok THEN "browser" ELSE "manual"
            /\ running' = FALSE
            /\ terminal' = IF terminal = "none" THEN "success" ELSE terminal
            /\ pc' = "sleep"
            /\ UNCHANGED consecutive_errors
    /\ attempt' = <<>>
    /\ UNCHANGED <<args, marketplace_url, imessage_sent, client, csrf_token, result,
                   gets, posts, detected, reserved, emitted, sigint>>
    /\ failed' = FALSE
    /\ polled' = <<>>
    /\ UNCHANGED <<request_count, baseline_hash, sessionView>>

\* run(): the jittered sleep that ends an iteration.
Sleep ==
    /\ pc = "sleep"
    /\ pc' = "loop_top"
    /\ attempt' = <<>>
    /\ UNCHANGED <<args, running, marketplace_url, imessage_sent, client, csrf_token,
                   consecutive_errors, result, gets, posts, detected,
                   reserved, emitted, handoff, sigint, terminal>>
    /\ failed' = FALSE
    /\ polled' = <<>>
    /\ UNCHANGED <<request_count, baseline_hash, sessionView>>

\* run(): the sleep inside the except Exception handler.
ErrSleep ==
    /\ pc = "err_sleep"
    /\ pc' = "loop_top"
    /\ attempt' = <<>>
    /\ UNCHANGED <<args, running, marketplace_url, imessage_sent, client, csrf_token,
                   consecutive_errors, result, gets, posts, detected,
                   reserved, emitted, handoff, sigint, terminal>>
    /\ failed' = FALSE
    /\ polled' = <<>>
    /\ UNCHANGED <<request_count, baseline_hash, sessionView>>

\* A main() without the finally clause.
MainReturnsUnclosed ==
    /\ pc = "finally"
    /\ pc' = "exited"
    /\ attempt' = <<>>
    /\ UNCHANGED <<args, running, marketplace_url, imessage_sent, client, csrf_token,
                   consecutive_errors, result, gets, posts, detected, reserved,
                   emitted, handoff, sigint, terminal>>
    /\ failed' = FALSE
    /\ polled' = <<>>
    /\ UNCHANGED <<request_count, baseline_hash, sessionView>>

\* main(): finally: monitor.session.close(), then return 0.
MainFinally ==
    /\ pc = "finally"
    /\ SessionClose
    /\ pc' = "exited"
    /\ attempt' = <<>>
    /\ UNCHANGED <<args, running, marketplace_url, imessage_sent, csrf_token,
                   consecutive_errors, result, gets, posts, detected,
                   reserved, emitted, handoff, sigint, terminal>>
    /\ failed' = FALSE
    /\ polled' = <<>>
    /\ UNCHANGED <<request_count, baseline_hash, sessionView>>

\* Where a KeyboardInterrupt raised at pc is caught: "wait" is the handler of
\* _poll_for_marketplace_link, "loop" the one of run(), "main" the one of main().
InterruptHandler(at) ==
    IF at \in {"wait_sleep", "wait_get"} THEN "wait"
    ELSE IF at \in {"poll", "add_to_cart", "notify", "handoff", "sleep"} THEN "loop"
    ELSE "main"

\* A run() whose except KeyboardInterrupt handler leaves _running set.
KeyboardInterruptKeepsRunning ==
    /\ pc \notin {"main", "finally", "exited"}
    /\ ~sigint
    /\ sigint' = TRUE
    /\ terminal' = IF terminal = "none" THEN "cancelled" ELSE terminal
    /\ LET h == InterruptHandler(pc) IN
       IF h = "wait"
       THEN running' = FALSE /\ SessionClose /\ pc' = "finally"
       ELSE IF h = "loop"
       THEN running' = running /\ client' = client /\ pc' = "loop_top"
       ELSE running' = running /\ client' = client /\ pc' = "finally"
    /\ attempt' = <<>>
    /\ UNCHANGED <<args, marketplace_url, imessage_sent, csrf_token,
                   consecutive_errors, result, gets, posts, detected,
                   reserved, emitted, handoff>>
    /\ failed' = FALSE
    /\ polled' = <<>>
    /\ UNCHANGED <<request_count, baseline_hash, sessionView>>

\* The operator interrupt, raised once, at any point of run().
KeyboardInterrupt ==
    /\ pc \notin {"main", "finally", "exited"}
    /\ ~sigint
    /\ sigint' = TRUE
    /\ terminal' = IF terminal = "none" THEN "cancelled" ELSE terminal
    /\ LET h == InterruptHandler(pc) IN
       IF h = "wait"
       THEN running' = FALSE /\ SessionClose /\ pc' = "finally"
       ELSE IF h = "loop"
       THEN running' = FALSE /\ client' = client /\ pc' = "loop_top"
       ELSE running' = running /\ client' = client /\ pc' = "finally"
    /\ attempt' = <<>>
    /\ UNCHANGED <<args, marketplace_url, imessage_sent, csrf_token,
                   consecutive_errors, result, gets, posts, detected,
                   reserved, emitted, handoff>>
    /\ failed' = FALSE
    /\ polled' = <<>>
    /\ UNCHANGED <<request_count, baseline_hash, sessionView>>

\* stop(), called from outside run() at any moment, before main() has called
\* run() included.
Stop ==
    /\ ~stopped
    /\ pc # "exited"
    /\ stopped' = TRUE
    /\ running' = FALSE
    /\ attempt' = <<>>
    /\ UNCHANGED <<args, pc, marketplace_url, imessage_sent, client, csrf_token,
                   consecutive_errors, result, gets, posts, detected,
                   reserved, emitted, handoff, sigint, terminal>>
    /\ failed' = FALSE
    /\ polled' = <<>>
    /\ UNCHANGED <<request_count, baseline_hash, cookies, timing, call, backoff,
                   html, parsed, carried>>

Next ==
    \/ RunStart
    \/ \E outs \in Outcomes(EventResponses) : DiscoverMarketplace(outs)
    \/ WaitTop
    \/ WaitSleep
    \/ \E outs \in Outcomes(EventResponses) : WaitGet(outs)
    \/ LoopTop
    \/ \E outs \in Outcomes(PollResponses) : PollOnce(outs)
    \/ \E outs \in Outcomes(CartResponses) : HandleTicketsFound(outs)
    \/ \E sent_ok \in BOOLEAN : NotifySuccess(sent_ok)
    \/ \E export_ok, browser_ok \in BOOLEAN : HandoffToBrowser(export_ok, browser_ok)
    \/ Sleep
    \/ ErrSleep
    \/ MainFinally
    \/ KeyboardInterrupt

Spec == Init /\ [][Next]_vars

\* The same program under the scheduling a single thread gives to the steps
\* that involve no waiting: the loop test of run() and the finally clause of
\* main() are executed once control stands at them.
FairSpec == Spec /\ WF_vars(LoopTop) /\ WF_vars(MainFinally)

\* The same program with the wait for the marketplace scheduled likewise: its
\* while test is executed and its sleep ends.
WaitFairSpec == Spec /\ WF_vars(WaitTop) /\ WF_vars(WaitSleep)

\* The same program with another thread that may call stop().
StopNext ==
    \/ Next
    \/ Stop

StopSpec == Init /\ [][StopNext]_vars

\* ---------------------------------------------------- the poll loop alone
\* run() from step 2 on: the marketplace URL is known, the event page has been
\* fetched once, and the marketplace answers with pages whose text varies and
\* with every kind of Retry-After header. The operator does not interrupt.
NoTicketsPage(body) ==
    Page(TRUE, body.token, FALSE, <<>>, body.token, TRUE, <<>>, body)
\* The no-tickets page again, with another timestamp, token and version.
PageNoTicketsLater == NoTicketsPage(Body(TRUE, "no_tickets", "t2", "tok2", "v2"))
\* The no-tickets page with other static text.
PageNoTicketsDrift == NoTicketsPage(Body(TRUE, "no_tickets_banner", "t1", "tok1", "v1"))
\* A page that says "No tickets available" without "at the moment".
PageNoTicketsReworded == NoTicketsPage(Body(FALSE, "no_tickets_reworded", "t1", "tok1", "v1"))
\* The no-tickets page with a token field whose value is empty.
PageNoTicketsEmptyToken == NoTicketsPage(Body(TRUE, "no_tickets", "t1", "", "v1"))
PolledPages ==
    {PageNoTickets, PageNoTicketsLater, PageNoTicketsDrift, PageNoTicketsReworded,
     PageNoTicketsEmptyToken, PageTwoPanels, PageDomForm, PageBlank}

\* Retry-After header values: none, empty, integers, not an integer.
PolledRetryAfters == {None, "", "7", "-5", "soon"}
PolledResponses ==
    {Response(200, ra, page, secondhand_url) : ra \in PolledRetryAfters, page \in PolledPages}
    \cup {Response(sc, ra, PageBlank, secondhand_url) :
              sc \in {409, 429, 503, 500}, ra \in PolledRetryAfters}

PollInit ==
    /\ args = [dry_run |-> FALSE, headless |-> FALSE, imessage |-> FALSE,
               poll_inactive_marketplace |-> FALSE]
    /\ pc = "loop_top"
    /\ running = TRUE
    /\ marketplace_url = secondhand_url
    /\ imessage_sent = FALSE
    /\ client = "open"
    /\ csrf_token = None
    /\ consecutive_errors = 0
    /\ result = <<>>
    /\ gets = 1
    /\ posts = 0
    /\ detected = FALSE
    /\ attempt = <<>>
    /\ reserved = FALSE
    /\ emitted = 0
    /\ handoff = "none"
    /\ sigint = FALSE
    /\ terminal = "none"
    /\ failed = FALSE
    /\ request_count = 1
    /\ cookies = NoCookies
    /\ timing = DefaultTiming
    /\ call = <<>>
    /\ backoff = <<>>
    /\ baseline_hash = NoHash
    /\ polled = <<>>
    /\ html = NoHtml
    /\ parsed = <<>>
    /\ carried = 0
    /\ stopped = FALSE

PollNext ==
    \/ LoopTop
    \/ \E outs \in Outcomes(PolledResponses) : PollOnce(outs)
    \/ \E outs \in Outcomes(CartResponses) : HandleTicketsFound(outs)
    \/ \E sent_ok \in BOOLEAN : NotifySuccess(sent_ok)
    \/ \E export_ok, browser_ok \in BOOLEAN : HandoffToBrowser(export_ok, browser_ok)
    \/ Sleep
    \/ ErrSleep
    \/ MainFinally

PollSpec == PollInit /\ [][PollNext]_vars

\* ------------------------------------------------- the session on its own
\* SecondhandSession under any sequence of get, post and close calls, with
\* responses that set cookies.
SetCookie(name, value) == [n \in CookieNames |-> IF n = name THEN value ELSE Absent]
SetCookies ==
    {NoCookies, SetCookie("session", "a"), SetCookie("session", "b"), SetCookie("cart", "a")}

SessionResponse(status_code, jar) ==
    [kind |-> "response", status_code |-> status_code, cookies |-> jar]
SessionResponses ==
    {SessionResponse(200, jar) : jar \in SetCookies}
    \cup {SessionResponse(500, NoCookies), SessionResponse(404, SetCookie("session", "b"))}

\* What the callers of the session post as form data.
PostedForms == {FormData(Absent, "1"), FormData("tok2", "1")}

\* The session call just made: the call, what it transmitted, what it met.
Call(method, url, data, c) ==
    [method |-> method, url |-> url, data |-> data, proactive |-> c.proactive,
     sent |-> c.sent, reconnects |-> c.reconnects, raised |-> c.raised,
     status_code |-> IF c.raised = None THEN c.response.status_code ELSE 0,
     cookies |-> IF c.raised = None THEN c.response.cookies ELSE NoCookies]

session == Session(client, request_count, cookies, csrf_token, consecutive_errors)

\* The monitor's own variables, which no session call touches.
monitorView ==
    <<args, pc, running, marketplace_url, imessage_sent, result, detected, attempt,
      reserved, emitted, handoff, sigint, terminal, failed, timing, backoff,
      baseline_hash, polled, html, parsed, stopped>>

\* The session starts without a client, or holds the client that has carried
\* the GETs since the last proactive reconnection, one request short of the
\* next.
SessionInit ==
    /\ args = [dry_run |-> FALSE, headless |-> FALSE, imessage |-> FALSE,
               poll_inactive_marketplace |-> FALSE]
    /\ pc = "session"
    /\ running = FALSE
    /\ marketplace_url = NoUrl
    /\ imessage_sent = FALSE
    /\ client \in {"none", "open"}
    /\ csrf_token \in {None, "tok1"}
    /\ consecutive_errors = 2
    /\ result = <<>>
    /\ gets = 0
    /\ posts = 0
    /\ detected = FALSE
    /\ attempt = <<>>
    /\ reserved = FALSE
    /\ emitted = 0
    /\ handoff = "none"
    /\ sigint = FALSE
    /\ terminal = "none"
    /\ failed = FALSE
    /\ request_count \in {0, MAX_REQUESTS_BEFORE_RECONNECT - 1,
                          2 * MAX_REQUESTS_BEFORE_RECONNECT - 1}
    /\ client = "open" => request_count # 0
    /\ cookies = NoCookies
    /\ timing = DefaultTiming
    /\ call = <<>>
    /\ backoff = <<>>
    /\ baseline_hash = NoHash
    /\ polled = <<>>
    /\ html = NoHtml
    /\ parsed = <<>>
    /\ carried = IF client = "open" THEN MAX_REQUESTS_BEFORE_RECONNECT - 1 ELSE 0
    /\ stopped = FALSE

\* The session takes the state s.
SessionBecomes(s) ==
    /\ client' = s.client
    /\ request_count' = s.request_count
    /\ cookies' = s.cookies
    /\ csrf_token' = s.csrf_token
    /\ consecutive_errors' = s.consecutive_errors

\* The transmissions on the client the session holds after a call that made
\* the transmissions sent: those on the client of the last one, added to the
\* tally if that is the client the call began with (conn 0).
Carried(tally, sent) ==
    LET last == sent[Len(sent)].conn IN
    Cardinality({i \in DOMAIN sent : sent[i].conn = last})
        + (IF last = 0 THEN tally ELSE 0)

\* session.get(url, params)
SessionGet(url, params, outs) ==
    LET c == get(session, url, params, outs) IN
    /\ gets + posts + Len(c.sent) <= MaxGets
    /\ gets' = gets + Len(c.sent)
    /\ SessionBecomes(c.state)
    /\ call' = <<Call("GET", url, params, c)>>
    /\ carried' = Carried(carried, c.sent)
    /\ UNCHANGED <<posts, monitorView>>

\* session.post(url, data)
SessionPost(url, data, outs) ==
    LET c == post(session, url, data, outs) IN
    /\ posts + Len(c.sent) <= MaxPosts
    /\ gets + posts + Len(c.sent) <= MaxGets
    /\ posts' = posts + Len(c.sent)
    /\ SessionBecomes(c.state)
    /\ call' = <<Call("POST", url, data, c)>>
    /\ carried' = Carried(carried, c.sent)
    /\ UNCHANGED <<gets, monitorView>>

\* session.close()
SessionCloseCall ==
    /\ client = "open"
    /\ SessionBecomes(close(session))
    /\ call' = <<>>
    /\ carried' = 0
    /\ UNCHANGED <<gets, posts, monitorView>>

SessionNext ==
    \/ \E outs \in Outcomes(SessionResponses) : SessionGet(secondhand_url, PollParams, outs)
    \/ \E data \in PostedForms, outs \in Outcomes(SessionResponses) :
           SessionPost(cart_add_url, data, outs)
    \/ SessionCloseCall

SessionSpec == SessionInit /\ [][SessionNext]_vars

\* ------------------------------------------------------- the backoff alone
\* record_error(), reset_errors() and get_backoff_seconds() under any
\* configured interval and ceiling.
Timings ==
    {Timing(p, c) : p \in {DefaultPollInterval, 60, 400}, c \in {DefaultBackoffMax, 100}}

\* The session's other fields and the monitor's, which these calls leave alone.
backoffView ==
    <<args, pc, running, marketplace_url, imessage_sent, client, csrf_token, result,
      gets, posts, detected, attempt, reserved, emitted, handoff, sigint, terminal,
      failed, request_count, cookies, timing, call, baseline_hash, polled, html,
      parsed, carried, stopped>>

BackoffInit ==
    /\ args = [dry_run |-> FALSE, headless |-> FALSE, imessage |-> FALSE,
               poll_inactive_marketplace |-> FALSE]
    /\ pc = "session"
    /\ running = FALSE
    /\ marketplace_url = NoUrl
    /\ imessage_sent = FALSE
    /\ client = "none"
    /\ csrf_token = None
    /\ consecutive_errors = 0
    /\ result = <<>>
    /\ gets = 0
    /\ posts = 0
    /\ detected = FALSE
    /\ attempt = <<>>
    /\ reserved = FALSE
    /\ emitted = 0
    /\ handoff = "none"
    /\ sigint = FALSE
    /\ terminal = "none"
    /\ failed = FALSE
    /\ request_count = 0
    /\ cookies = NoCookies
    /\ timing \in Timings
    /\ call = <<>>
    /\ backoff = <<>>
    /\ baseline_hash = NoHash
    /\ polled = <<>>
    /\ html = NoHtml
    /\ parsed = <<>>
    /\ carried = 0
    /\ stopped = FALSE

\* session.record_error()
BackoffRecordError ==
    /\ consecutive_errors < MaxErrors
    /\ RecordError
    /\ UNCHANGED <<backoff, backoffView>>

\* session.reset_errors()
BackoffResetErrors ==
    /\ consecutive_errors' = 0
    /\ UNCHANGED <<backoff, backoffView>>

\* session.get_backoff_seconds(): the count it was called at and its answer.
GetBackoffSeconds ==
    /\ backoff' = <<consecutive_errors, get_backoff_seconds(consecutive_errors, timing)>>
    /\ UNCHANGED <<consecutive_errors, backoffView>>

BackoffNext ==
    \/ BackoffRecordError
    \/ BackoffResetErrors
    \/ GetBackoffSeconds

BackoffSpec == BackoffInit /\ [][BackoffNext]_vars

\* -------------------------------------------------------- the parser alone
\* parse_secondhand_page, _extract_listings_fast and _extract_listings on
\* marketplace pages put together from the elements such pages hold.
BuyForm(action) == Form("post", action, FALSE, "button", "tok1", Absent)
ListingA == PanelElem("panel-default", "A", TRUE, BuyForm(PanelA.form_action))
ListingB == PanelElem("panel-default", "B", TRUE, BuyForm(PanelB.form_action))
\* A listing panel whose buy action holds a character reference.
ListingAmp ==
    PanelElem("panel-default", "A", TRUE,
              BuyForm(<<"/", "event", "secondhand", "buy", "c", "?", "x", "&amp;", "y">>))
\* A listing panel whose form is submitted by an input element.
ListingInput ==
    PanelElem("panel-default", "A", TRUE,
              Form("post", PanelA.form_action, FALSE, "input", "tok1", Absent))
\* The "How it works" panel.
HowItWorks == PanelElem("panel-info", "How it works", FALSE, NoForm)
\* A panel of the listing class that lists nothing.
EmptyPanel == PanelElem("panel-default", "Notice", FALSE, NoForm)
FilterForm == FormElem(Form("get", <<>>, TRUE, "button", Absent, Absent))
\* A product row with a form that posts to the cart.
TicketRow == WrapperElem(Form("post", <<"/", "event", "cart", "add">>, FALSE, "button", "tok1", "1"))
CartAnchor == AnchorElem(<<"/", "event", "cart">>)
HiddenToken == InputElem("tok2")
Elements ==
    {ListingA, ListingB, ListingAmp, ListingInput, HowItWorks, EmptyPanel, FilterForm,
     TicketRow, CartAnchor, HiddenToken}

RECURSIVE SeqsUpTo(_, _)
SeqsUpTo(S, n) ==
    IF n = 0 THEN {<<>>}
    ELSE LET shorter == SeqsUpTo(S, n - 1) IN
         shorter \cup {Append(q, e) : q \in shorter, e \in S}

Markers == {"none", "alert", "text", "alert_entity"}
Htmls ==
    {Html(marker, meta_token, items) :
        marker \in Markers, meta_token \in {None, "tok2"}, items \in SeqsUpTo(Elements, MaxItems)}

\* Everything but the page in the parser's hands and what it made of it.
parserView ==
    <<args, pc, running, marketplace_url, imessage_sent, client, csrf_token,
      consecutive_errors, result, gets, posts, detected, attempt, reserved, emitted,
      handoff, sigint, terminal, failed, request_count, cookies, timing, call, backoff,
      baseline_hash, polled, carried, stopped>>

ParserInit ==
    /\ args = [dry_run |-> FALSE, headless |-> FALSE, imessage |-> FALSE,
               poll_inactive_marketplace |-> FALSE]
    /\ pc = "parser"
    /\ running = FALSE
    /\ marketplace_url = NoUrl
    /\ imessage_sent = FALSE
    /\ client = "none"
    /\ csrf_token = None
    /\ consecutive_errors = 0
    /\ result = <<>>
    /\ gets = 0
    /\ posts = 0
    /\ detected = FALSE
    /\ attempt = <<>>
    /\ reserved = FALSE
    /\ emitted = 0
    /\ handoff = "none"
    /\ sigint = FALSE
    /\ terminal = "none"
    /\ failed = FALSE
    /\ request_count = 0
    /\ cookies = NoCookies
    /\ timing = DefaultTiming
    /\ call = <<>>
    /\ backoff = <<>>
    /\ baseline_hash = NoHash
    /\ polled = <<>>
    /\ html \in Htmls
    /\ parsed = <<>>
    /\ carried = 0
    /\ stopped = FALSE

\* parse_secondhand_page(html)
ParseSecondhandPage ==
    /\ parsed' = <<[op |-> "parse", result |-> parse_secondhand_page(Stages(html))]>>
    /\ UNCHANGED <<html, parserView>>

\* _extract_listings_fast(html) and _extract_listings(soup), each on its own.
ExtractListings ==
    /\ parsed' = <<[op |-> "extract", fast |-> extract_listings_fast(html),
                    dom |-> extract_listings(html)]>>
    /\ UNCHANGED <<html, parserView>>

ParserNext ==
    \/ ParseSecondhandPage
    \/ ExtractListings

ParserSpec == ParserInit /\ [][ParserNext]_vars

\* ------------------------------------------------------------------- claims
\* The reservation attempt the step just taken made.
Made == attempt # <<>>
Cart == attempt[1].cart
Detected == attempt[1].listings
Terminated == {"ConnectionTerminated", "RemoteProtocolError"}
HasCheckout(url) == Contains(url, "checkout")
HasMarketplace(url) == Contains(url, "secondhand")
Is2xx3xx(status_code) == 200 <= status_code /\ status_code <= 399
\* run() has ended: main stands in its finally clause or has returned.
RunEnded == pc \in {"finally", "exited"}

\* C1: every poll answered 200 with tickets available is followed by a
\* reservation attempt before the next poll is issued: the monitor never
\* stands at the next poll with such a detection unattempted.
C1_DetectionAttemptedBeforeNextPoll == pc = "poll" => ~detected

\* C2: once a reservation attempt is classified success, no further
\* marketplace GET and no further reservation POST is transmitted.
C2_NoRequestAfterSuccess ==
    [][reserved => (gets' = gets /\ posts' = posts)]_vars

\* C3: the success notification is emitted at most once in a run, and exactly
\* once in a run that ends in Terminal(success).
C3_NotifiedOnce == emitted <= 1 /\ (terminal = "success" => emitted = 1)

\* C4 as claimed: the attempt targets listing index 0 and its request is
\* transmitted at most once, whatever the transmission meets.
C4_TransmittedAtMostOnce ==
    Made => Cart.listing = Detected[1] /\ Len(Cart.sent) <= 1

\* The attempt a detection made, as a state: what it targeted and what it sent.
C4_AttemptState ==
    Made =>
        /\ Cart.listing = Detected[1]
        /\ Len(Cart.sent) \in {1, 2}
        /\ Len(Cart.sent) = 2 => Cart.sent[1].met \in Terminated
        /\ \A i \in DOMAIN Cart.sent :
              /\ Cart.sent[i].url = CartUrl(Detected[1].form_action)
              /\ Cart.sent[i].data.item = Detected[1].form_data.item
        /\ \A i \in DOMAIN Cart.sent : \A j \in DOMAIN Detected :
              Detected[j].form_action # Detected[1].form_action
                  => Cart.sent[i].url # CartUrl(Detected[j].form_action)

\* The step that makes an attempt: POSTs are transmitted by it alone.
C4_AttemptStep ==
    /\ posts' # posts => pc = "add_to_cart" /\ Made' /\ posts' = posts + Len(attempt'[1].cart.sent)
    /\ pc = "add_to_cart" /\ pc' # "add_to_cart" /\ ~sigint' => Made'

\* C4 as amended: each detection handled makes exactly one attempt, for
\* listing index 0; its request is transmitted once, and a second time only
\* after the first transmission met the connection-terminated error; every
\* transmission goes to that listing's URL with that listing's fields, and no
\* POST is transmitted outside such an attempt.
C4_OneAttemptFirstListing == [] C4_AttemptState /\ [][C4_AttemptStep]_vars

C4_Witness ==
    /\ Made
    /\ Len(Detected) = 2
    /\ Len(Cart.sent) = 2
    /\ Cart.raised = None

\* C5 as claimed: a final URL with the checkout segment is a success that
\* returns that URL, and a final URL with the marketplace segment is a failure
\* that returns no URL.
C5_BothSegmentsClassified ==
    Made /\ Cart.raised = None =>
        /\ HasCheckout(Cart.final_url) => Cart.success /\ Cart.redirect_url = Cart.final_url
        /\ HasMarketplace(Cart.final_url) => ~Cart.success /\ Cart.redirect_url = NoUrl

\* C5 as amended: a final URL with the checkout segment is a success that
\* returns that URL; a final URL with the marketplace segment and without the
\* checkout segment is a failure that returns no URL.
C5_CheckoutFirst ==
    Made /\ Cart.raised = None =>
        /\ HasCheckout(Cart.final_url) => Cart.success /\ Cart.redirect_url = Cart.final_url
        /\ HasMarketplace(Cart.final_url) /\ ~HasCheckout(Cart.final_url)
              => ~Cart.success /\ Cart.redirect_url = NoUrl

C5_Witness ==
    /\ Made
    /\ Cart.raised = None
    /\ HasCheckout(Cart.final_url)
    /\ HasMarketplace(Cart.final_url)
    /\ Cart.success
    /\ Cart.redirect_url = Cart.final_url

\* C6 as claimed: a response whose status is outside 2xx/3xx, or whose final
\* URL has neither segment, is a failure that returns no URL, and the monitor
\* goes on polling.
C6_ErrorStatusIsFailure ==
    Made /\ Cart.raised = None
         /\ (\/ ~Is2xx3xx(Cart.status_code)
             \/ (~HasCheckout(Cart.final_url) /\ ~HasMarketplace(Cart.final_url)))
    => ~Cart.success /\ Cart.redirect_url = NoUrl

\* C6 as amended: a response whose final URL has neither segment, whatever its
\* status, or whose status is outside 2xx/3xx and whose final URL lacks the
\* checkout segment, is a failure that returns no URL; the run does not end on
\* it and the monitor stands at the sleep that leads back to the poll.
C6_UnexpectedIsFailure ==
    Made /\ Cart.raised = None
         /\ ~HasCheckout(Cart.final_url)
         /\ (~Is2xx3xx(Cart.status_code) \/ ~HasMarketplace(Cart.final_url))
    => /\ ~Cart.success
       /\ Cart.redirect_url = NoUrl
       /\ pc = "sleep"
       /\ running
       /\ terminal = "none"

C6_Witness ==
    /\ Made
    /\ Cart.raised = None
    /\ Cart.status_code = 500
    /\ ~HasCheckout(Cart.final_url)
    /\ ~HasMarketplace(Cart.final_url)
    /\ pc = "sleep"

\* C7: every transmission of a post carries the caller's anti-forgery value
\* when the caller gave one, the stored token when the caller gave none and a
\* token is stored, and the caller's other fields unchanged; the
\* retransmission after a reconnect is one of these transmissions.
C7_TokenPrecedence ==
    Made =>
        \A i \in DOMAIN Cart.sent :
            LET given == Cart.listing.form_data
                wire == Cart.sent[i].data
            IN /\ given.csrfmiddlewaretoken # Absent
                      => wire.csrfmiddlewaretoken = given.csrfmiddlewaretoken
               /\ given.csrfmiddlewaretoken = Absent /\ Cart.token # None
                      => wire.csrfmiddlewaretoken = Cart.token
               /\ wire.item = given.item

C7_Witness ==
    /\ Made
    /\ Len(Cart.sent) = 2
    /\ Cart.token \in CsrfTokens
    /\ Cart.listing.form_data.csrfmiddlewaretoken \in CsrfTokens \ {Cart.token}
    /\ Cart.sent[2].data.csrfmiddlewaretoken = Cart.listing.form_data.csrfmiddlewaretoken

\* C8: with --dry-run on the command line no reservation POST is transmitted.
C8_DryRunNeverPosts == args.dry_run => posts = 0

\* C9: once the operator interrupt is raised no GET and no POST is
\* transmitted, and the run ends, cancelled when the interrupt met a run that
\* had not ended.
C9_InterruptEndsRun ==
    /\ [][sigint => (gets' = gets /\ posts' = posts)]_vars
    /\ [](sigint => terminal # "none")
    /\ [][terminal = "cancelled" => terminal' = "cancelled"]_vars
    /\ (sigint ~> pc = "exited")

C9_Witness ==
    /\ pc = "exited"
    /\ sigint
    /\ terminal = "cancelled"
    /\ ~running
    /\ marketplace_url # NoUrl
    /\ gets >= 2

\* C10: when main returns the client handle is closed, and from the moment
\* run() has ended no request is transmitted and no client is opened.
C10_ClosedAtExit ==
    /\ [](pc = "exited" => client = "none")
    /\ [][RunEnded => (gets' = gets /\ posts' = posts /\ client' = "none")]_vars

C10_Witness ==
    /\ pc = "exited"
    /\ running
    /\ sigint
    /\ gets > 0
    /\ client = "none"

\* The poll loop of run(): its while test, a poll, a reservation attempt, the
\* notifications, the hand-off and the two sleeps.
InPollLoop ==
    pc \in {"loop_top", "poll", "add_to_cart", "notify", "handoff", "sleep", "err_sleep"}

\* A step out of the poll loop follows a successful reservation whose
\* hand-off cleared _running, or the operator interrupt.
C11_LeavesLoop ==
    InPollLoop /\ ~InPollLoop'
        => /\ pc' = "finally"
           /\ \/ ~running /\ reserved /\ terminal' = "success"
              \/ sigint' /\ terminal' = "cancelled"

\* A poll or a reservation attempt, whatever it meets, stays in the loop.
C11_StaysInLoop ==
    pc \in {"poll", "add_to_cart"} /\ ~sigint'
        => InPollLoop' /\ running' = running /\ terminal' = terminal

\* The run fails only in step 1, with no marketplace URL and no wait interval.
C11_FailsInDiscovering ==
    terminal # "failure" /\ terminal' = "failure"
        => pc = "discover" /\ marketplace_url' = NoUrl /\ ~config.poll_inactive_interval

\* C11: no request failure, error status, parse anomaly or failed reservation
\* ends the poll loop: the loop is left only after a successful reservation
\* (Terminal(success)) or after the operator interrupt (Terminal(cancelled)),
\* and Terminal(failure) arises only in Discovering, with no marketplace link
\* found and no wait interval configured.
C11_OnlySuccessOrCancelLeavesLoop ==
    /\ [][C11_LeavesLoop /\ C11_StaysInLoop /\ C11_FailsInDiscovering]_vars
    /\ [](InPollLoop => terminal # "failure")

C11_Witness ==
    /\ pc = "loop_top"
    /\ running
    /\ consecutive_errors >= 1
    /\ posts >= 1
    /\ ~reserved
    /\ terminal = "none"

\* C12: a transport failure on any request of a run never moves the monitor
\* to a terminal state.
C12_TransportFailureNeverTerminal == failed => terminal = "none" /\ ~RunEnded

\* The session call the step just taken made.
Called == call # <<>>
Last == call[1]
Graceful == "ConnectionTerminated"

\* C13: a get or post that meets the connection-terminated error is
\* retransmitted exactly once, on a fresh connection, with the same URL and
\* the same parameters or form data; if the retransmission fails too, its
\* error reaches the caller. One call makes at most two transmissions and at
\* most one reactive reconnection, and leaves a client in place.
C13_ReconnectRetransmitsOnce ==
    Called =>
        /\ Len(Last.sent) \in {1, 2}
        /\ Last.reconnects <= 1
        /\ Last.sent[1].url = Last.url
        /\ Last.method = "GET" => Last.sent[1].data = Last.data
        /\ client = "open"
        /\ Last.sent[1].met = Graceful =>
              /\ Len(Last.sent) = 2
              /\ Last.reconnects = 1
              /\ Last.sent[2].conn = Last.sent[1].conn + 1
              /\ Last.sent[2].url = Last.sent[1].url
              /\ Last.sent[2].data = Last.sent[1].data
              /\ Last.raised = IF Last.sent[2].met = "response"
                               THEN None ELSE Last.sent[2].met

C13_Witness ==
    /\ Called
    /\ Last.method = "GET"
    /\ Len(Last.sent) = 2
    /\ Last.sent[1].met = Graceful
    /\ Last.sent[2].met = Graceful
    /\ Last.raised = Graceful

AtHighWaterMark(n) == n > 0 /\ n % MAX_REQUESTS_BEFORE_RECONNECT = 0
\* The step is a session call: every call transmits at least once.
GetStep == gets' # gets
PostStep == posts' # posts
OnFreshConnection(c) == \A i \in DOMAIN c.sent : c.sent[i].conn >= 1

C15_Step ==
    /\ GetStep /\ AtHighWaterMark(request_count)
           => call'[1].proactive /\ OnFreshConnection(call'[1])
    /\ GetStep /\ ~AtHighWaterMark(request_count)
           => ~call'[1].proactive /\ (client = "open" => call'[1].sent[1].conn = 0)
    /\ PostStep
           => ~call'[1].proactive /\ (client = "open" => call'[1].sent[1].conn = 0)

CloseStep == client = "open" /\ client' = "none"
ReconnectOnlyStep ==
    /\ GetStep \/ PostStep
    /\ call'[1].proactive \/ call'[1].reconnects > 0
    /\ call'[1].raised # None
NoCookieLost == \A n \in CookieNames : cookies[n] # Absent => cookies'[n] # Absent

\* C17: close() and a reconnection, proactive or reactive, leave
\* requestCount, the cookie store, the stored anti-forgery token and
\* consecutiveErrorCount as they were; across any step, reconnecting or not,
\* requestCount does not decrease and no cookie name is lost.
C17_ReconnectIsTransportOnly ==
    [][/\ CloseStep \/ ReconnectOnlyStep
           => UNCHANGED <<request_count, cookies, csrf_token, consecutive_errors>>
       /\ request_count' >= request_count
       /\ NoCookieLost
       /\ UNCHANGED <<csrf_token, consecutive_errors>>]_vars

C17_Witness ==
    /\ Called
    /\ Last.reconnects = 1
    /\ Last.raised # None
    /\ cookies["session"] # Absent
    /\ request_count > 0
    /\ csrf_token # None

\* C18: after every call that received a response the cookie store holds,
\* under each name the response set, the value it set, and under every other
\* name what it held before; a call that received none, and close(), leave
\* the store as it was. No name is ever removed.
C18_LastWriteWins ==
    [][/\ (GetStep \/ PostStep) /\ call'[1].raised = None
           => \A n \in CookieNames :
                  cookies'[n] = IF call'[1].cookies[n] # Absent
                                THEN call'[1].cookies[n] ELSE cookies[n]
       /\ ~((GetStep \/ PostStep) /\ call'[1].raised = None)
           => cookies' = cookies
       /\ NoCookieLost]_vars

C18_Witness ==
    /\ Called
    /\ Last.raised = None
    /\ Last.cookies["session"] = "b"
    /\ cookies["session"] = "b"
    /\ cookies["cart"] = "a"
    /\ gets + posts = 3

\* The backoff get_backoff_seconds() last answered: at which count, and what.
BackoffAt == backoff[1]
BackoffValue == backoff[2]
Table == <<30, 60, 120, 240>>

\* C19: get_backoff_seconds() answers the configured poll interval at count
\* 0; at count n >= 1 it answers 30, 60, 120, 240 for n = 1..4 under the
\* default ceiling of 300, never more than the configured ceiling, the
\* ceiling itself once 30 * 2^(n-1) passes it, and never less than at a
\* smaller positive count.
C19_BackoffSchedule ==
    backoff # <<>> =>
        /\ BackoffAt = 0 => BackoffValue = timing.poll_interval_seconds
        /\ BackoffAt >= 1 =>
              /\ BackoffValue <= timing.backoff_max_seconds
              /\ BackoffAt <= 4 /\ timing.backoff_max_seconds = 300
                     => BackoffValue = Table[BackoffAt]
              /\ BackoffAt <= 4 /\ Table[BackoffAt] <= timing.backoff_max_seconds
                     => BackoffValue = Table[BackoffAt]
              /\ BackoffAt > 4 /\ timing.backoff_max_seconds <= 300
                     => BackoffValue = timing.backoff_max_seconds
              /\ \A m \in 1..BackoffAt :
                     get_backoff_seconds(m, timing) <= BackoffValue

C19_Witness ==
    /\ backoff = <<5, 300>>
    /\ timing = DefaultTiming
    /\ consecutive_errors = 6

\* C20: a poll that completes with status 200 and valid content leaves
\* consecutiveErrorCount at 0; a poll that fails or completes with any other
\* status leaves it one greater than before.
C20_PollSetsErrorCount ==
    [][pc = "poll" /\ pc' # "poll" /\ ~sigint'
           => /\ detected' => consecutive_errors' = 0
              /\ failed' => consecutive_errors' = consecutive_errors + 1
              /\ consecutive_errors' = 0
                     \/ consecutive_errors' = consecutive_errors + 1]_vars

\* The step is a _poll_once whose get returned a response.
PollStep == pc = "poll" /\ polled' # <<>> /\ polled'[1].raised = None
\* The poll the step just taken made.
HasPolled == polled # <<>>
Poll == polled[1]

\* C21: a poll response that carries a Retry-After header is handled by the
\* header branch and by no status branch: the loop sleeps the header's
\* integer value, 60 seconds when the value is no integer, and exactly one
\* error is recorded.
C21_RetryAfterPrecedence ==
    [][PollStep /\ polled'[1].retry_after # None
           => /\ polled'[1].branch = "retry_after"
              /\ polled'[1].slept = IF polled'[1].retry_after \in IntValued
                                    THEN int(polled'[1].retry_after) ELSE 60
              /\ consecutive_errors' = consecutive_errors + 1]_vars

\* C22: a poll answered 409 without a Retry-After header is handled by the
\* 409 branch, which sleeps 5 seconds and leaves consecutiveErrorCount as it
\* was, so that the backoff is what it was; the run goes on, at the sleep
\* that leads back to the poll.
C22_ConflictLeavesErrorCount ==
    [][PollStep /\ polled'[1].status_code = 409 /\ polled'[1].retry_after = None
           => /\ polled'[1].branch = "409"
              /\ polled'[1].slept = 5
              /\ consecutive_errors' = consecutive_errors
              /\ get_backoff_seconds(consecutive_errors', timing)
                     = get_backoff_seconds(consecutive_errors, timing)
              /\ pc' = "sleep"
              /\ running'
              /\ terminal' = "none"]_vars

C22_Witness ==
    /\ HasPolled
    /\ Poll.status_code = 409
    /\ Poll.retry_after = None
    /\ consecutive_errors = 1
    /\ get_backoff_seconds(consecutive_errors, timing) = 30
    /\ pc = "sleep"

\* The step is run()'s step 1 with its fetch of the event page made.
DiscoverStep == pc = "discover" /\ polled' # <<>>
\* The fetch the step made returned 200 and a page with the marketplace link.
FoundLink == polled'[1].raised = None /\ polled'[1].status_code = 200 /\ polled'[1].link

C23_Step ==
    DiscoverStep =>
        /\ gets = 0 /\ gets' \in {1, 2} /\ posts' = 0
        /\ FoundLink
               => /\ pc' = "loop_top"
                  /\ marketplace_url' = secondhand_url
                  /\ terminal' = "none"
        /\ ~FoundLink /\ config.poll_inactive_interval
               => /\ pc' = "wait_top"
                  /\ marketplace_url' = NoUrl
                  /\ terminal' = "none"
        /\ ~FoundLink /\ ~config.poll_inactive_interval
               => /\ pc' = "finally"
                  /\ marketplace_url' = NoUrl
                  /\ terminal' = "failure"
                  /\ client' = "none"

\* C23: step 1 fetches the event page once and takes one of three ways: to
\* the poll loop with the marketplace URL set when the link was found; to the
\* wait for the marketplace when it was not and a wait interval is
\* configured; to Terminal(failure) when it was not and none is configured,
\* with the connection closed. A run that failed so has transmitted the
\* event-page request only, and transmits nothing afterwards.
C23_DiscoveringBranches ==
    /\ [][C23_Step]_vars
    /\ [](terminal = "failure"
            => /\ RunEnded
               /\ client = "none"
               /\ marketplace_url = NoUrl
               /\ gets \in {1, 2}
               /\ posts = 0)

C23_Witness ==
    /\ terminal = "failure"
    /\ polled # <<>>
    /\ polled[1].status_code = 200
    /\ ~polled[1].link
    /\ pc = "finally"
    /\ client = "none"
    /\ gets = 1

\* _poll_for_marketplace_link(): its while test, its sleep, its re-check.
Waiting == pc \in {"wait_top", "wait_sleep", "wait_get"}
\* The step is a re-check of the event page.
RecheckStep == pc = "wait_get" /\ polled' # <<>>
\* The wait loop was sent back to its top by a fetch that found no link.
FailedRecheck ==
    /\ pc = "wait_top"
    /\ polled # <<>>
    /\ ~(polled[1].raised = None /\ polled[1].status_code = 200 /\ polled[1].link)

C24_Step ==
    /\ RecheckStep /\ FoundLink
           => pc' = "loop_top" /\ marketplace_url' = secondhand_url /\ terminal' = "none"
    /\ RecheckStep /\ ~FoundLink
           => /\ pc' = "wait_top"
              /\ running'
              /\ marketplace_url' = NoUrl
              /\ terminal' = "none"
    /\ Waiting /\ ~Waiting'
           => \/ RecheckStep /\ FoundLink
              \/ sigint' /\ terminal' = "cancelled" /\ pc' = "finally"
    /\ pc # "wait_get" /\ pc' = "wait_get" => pc = "wait_sleep"
    /\ gets' # gets /\ Waiting => pc = "wait_get"

\* C24: the wait for the marketplace is left only by a re-check that found
\* the link, for the poll loop, or by the operator interrupt, for
\* Terminal(cancelled); a re-check that met another status, a page without
\* the link or a request error returns to the top of the wait; every
\* re-check follows a sleep; and when every re-check returns and from some
\* point on none fails to find the link, the monitor leaves the wait for the
\* poll loop unless the operator interrupts: from the top of the wait and
\* from its sleep the next re-check is always reached.
C24_WaitLeftByLinkOrCancel ==
    /\ [][C24_Step]_vars
    /\ (pc \in {"wait_top", "wait_sleep"} ~> (pc = "wait_get" \/ sigint))
    /\ ((<>[]~FailedRecheck /\ []<>(pc # "wait_get"))
           => (Waiting ~> (pc = "loop_top" \/ sigint)))

C24_Witness ==
    /\ pc = "loop_top"
    /\ marketplace_url = secondhand_url
    /\ polled # <<>>
    /\ polled[1].link
    /\ consecutive_errors = 1
    /\ gets = 3

\* The step is the sleep that ends an iteration of the poll loop.
SleepStep == pc = "sleep" /\ pc' = "loop_top"

\* C25: after a reservation attempt classified failure the monitor goes back
\* to the poll without sleeping: the step that follows such an attempt is
\* not the sleep of the loop.
C25_NoSleepAfterFailedAttempt ==
    [][Made /\ ~Cart.success => ~SleepStep]_vars

\* What the parser made of the page in its hands.
Parsed(op) == parsed # <<>> /\ parsed[1].op = op
\* The text "No tickets available" stands in the source of the page.
HasMarker == html.marker \in {"alert", "text"}
\* The value of the first token field of the page, None without one.
FirstTokenField ==
    LET fields == {i \in DOMAIN Tags(html.items) : Tags(html.items)[i].name = "csrf"} IN
    IF fields = {} THEN None
    ELSE Tags(html.items)[CHOOSE i \in fields : \A j \in fields : i <= j].value

\* C26: for every page whose text holds the no-inventory marker the parser
\* answers not available, with no listing and with the token of the first
\* token field of the text, None without one, whatever listing panels, forms,
\* links or meta tag the page holds besides.
C26_MarkerWins ==
    Parsed("parse") /\ HasMarker
        => parsed[1].result = ParseResult(FALSE, <<>>, FirstTokenField)

C26_Witness ==
    /\ Parsed("parse")
    /\ html.marker = "text"
    /\ html.meta_token = "tok2"
    /\ html.items = <<ListingA, ListingB>>
    /\ parsed[1].result = ParseResult(FALSE, <<>>, "tok1")

\* The listing-panel pattern of the fast path matches the page.
MatchesPanelPattern == PanelMatches(Tags(html.items), 1) # <<>>

\* A listing panel as the marketplace renders it: the listing class, a
\* title, a price, and a post form that is no filter form, holds its token
\* field and a submit button, and whose action is a buy URL without
\* character references.
IsListingPanel(e) ==
    /\ e.kind = "panel"
    /\ e.class = "panel-default"
    /\ e.title # Absent
    /\ e.price
    /\ e.form.method = "post"
    /\ ~e.form.inline
    /\ e.form.control = "button"
    /\ e.form.csrf # Absent
    /\ HasBuyPath(e.form.action)
    /\ Unescape(e.form.action) = e.form.action
\* What else such a page holds: panels without a form, the filter form,
\* hidden fields.
IsBystander(e) ==
    \/ e.kind = "panel" /\ e.form = NoForm
    \/ e.kind = "form" /\ e.form.inline
    \/ e.kind = "input"
RendersListings ==
    /\ \E i \in DOMAIN html.items : IsListingPanel(html.items[i])
    /\ \A i \in DOMAIN html.items :
           IsListingPanel(html.items[i]) \/ IsBystander(html.items[i])

\* The two extractions agree on the page: as many listings, and the same
\* form action in the first.
Agree ==
    /\ Len(parsed[1].fast) = Len(parsed[1].dom)
    /\ Len(parsed[1].fast) >= 1
    /\ parsed[1].fast[1].form_action = parsed[1].dom[1].form_action

\* C27 as claimed: on every page the listing-panel pattern matches, the fast
\* path and the full structural parse, each run on its own, find as many
\* listings and the same form action for the first.
C27_PatternPagesAgree == Parsed("extract") /\ MatchesPanelPattern => Agree

\* C27 as amended: they do on every page made of listing panels as the
\* marketplace renders them, panels without a form, the filter form and
\* hidden fields.
C27_RenderedPagesAgree == Parsed("extract") /\ RendersListings => Agree

C27_Witness ==
    /\ Parsed("extract")
    /\ html.items = <<ListingA, ListingB>>
    /\ Len(parsed[1].fast) = 2
    /\ Len(parsed[1].dom) = 2
    /\ parsed[1].dom[1].form_action = PanelA.form_action


\* ---- C28
\* A poll that got a 200 page holding the monitor's no-tickets marker: the
\* pages _is_baseline_response takes a digest of.
NoInventoryPoll ==
    HasPolled /\ Poll.raised = None /\ Poll.status_code = 200 /\ Poll.body.moment

\* Two page texts that differ at most in the values the dynamic patterns match.
SameButDynamic(a, b) ==
    /\ a.moment = b.moment
    /\ a.static = b.static
    /\ (a.token = None) <=> (b.token = None)

\* The digest _is_baseline_response computes for a page text.
Digest(body) == md5(strip_dynamic(body))

\* C28: two no-inventory page texts that are equal once the timestamp
\* attribute, the token field and the version fragments are removed get the
\* same digest; so a page whose text is, apart from those, the text the
\* baseline was taken of matches the baseline whenever it is checked.
C28_EqualDigests ==
    NoInventoryPoll =>
        /\ \A p \in PolledPages :
               (p.body.moment /\ SameButDynamic(p.body, Poll.body))
                   => Digest(p.body) = Digest(Poll.body)
        /\ (Poll.baseline # NoHash /\ SameButDynamic(Poll.body, Poll.baseline[2]))
               => Poll.result_str = "No tickets"

\* The baseline was taken of the no-tickets page, and the page came back with
\* another timestamp, token and version and matched it.
C28_Witness ==
    /\ NoInventoryPoll
    /\ Poll.body = PageNoTicketsLater.body
    /\ Poll.body # PageNoTickets.body
    /\ Poll.baseline = Digest(PageNoTickets.body)
    /\ Poll.result_str = "No tickets"


\* ---- C29
\* A poll that got a 200 page in which the parser found no tickets.
NoTicketsPoll ==
    HasPolled /\ Poll.raised = None /\ Poll.status_code = 200 /\ ~Poll.tickets

Steady == Poll.result_str = "No tickets"
Unusual == Poll.result_str = "No tickets (UNUSUAL)"

\* The poll leaves the monitor polling: its loop goes on to the sleep that ends
\* the iteration.
RemainsPolling == pc = "sleep" /\ running /\ terminal = "none"

\* self._baseline_hash, once set, keeps its value.
C29_Step == baseline_hash # NoHash => baseline_hash' = baseline_hash

\* Every later no-tickets page is steady exactly if its digest is the
\* baseline, and unusual otherwise.
C29_Later ==
    (NoTicketsPoll /\ Poll.baseline # NoHash) =>
        /\ Steady <=> (Poll.body.moment /\ Digest(Poll.body) = Poll.baseline)
        /\ Unusual <=> ~Steady

\* C29 as claimed: the baseline is set once, by the first 200 response in which
\* the parser finds no tickets, and keeps its value; later no-tickets pages are
\* steady exactly if their digest is the baseline and unusual otherwise; the
\* monitor goes on polling.
C29_BaselineFromFirstNoTickets ==
    /\ [](NoTicketsPoll =>
            /\ Poll.baseline = NoHash => baseline_hash = Digest(Poll.body)
            /\ RemainsPolling)
    /\ []C29_Later
    /\ [][C29_Step]_vars

\* C29 as the code has it: the baseline is set at most once, by the first 200
\* response in which the parser finds no tickets and that holds the monitor's
\* marker; a no-tickets page without that marker sets no baseline and is
\* unusual. The baseline keeps its value; later no-tickets pages are steady
\* exactly if their digest is the baseline and unusual otherwise; the monitor
\* goes on polling.
C29_BaselineFromFirstMarkerPage ==
    /\ [](NoTicketsPoll =>
            /\ (Poll.baseline = NoHash /\ Poll.body.moment)
                   => (baseline_hash = Digest(Poll.body) /\ Steady)
            /\ (Poll.baseline = NoHash /\ ~Poll.body.moment)
                   => (baseline_hash = NoHash /\ Unusual)
            /\ RemainsPolling)
    /\ [](baseline_hash # NoHash => baseline_hash[2].moment)
    /\ []C29_Later
    /\ [][C29_Step]_vars

\* A baseline was set by an earlier page, a page with other static text came
\* back, was logged as unusual and left the baseline as it was.
C29_Witness ==
    /\ NoTicketsPoll
    /\ Poll.baseline = Digest(PageNoTickets.body)
    /\ Poll.body = PageNoTicketsDrift.body
    /\ Unusual
    /\ baseline_hash = Poll.baseline
    /\ RemainsPolling


\* ---- C30
\* A poll whose 200 response the parser read a token in.
ParsedWithToken ==
    /\ HasPolled
    /\ Poll.raised = None
    /\ Poll.status_code = 200
    /\ Poll.parsed_token \notin {None, ""}

\* C30: after every poll whose 200 response is parsed with a token, the token
\* the session stores is that token.
C30_StoredTokenIsParsed ==
    ParsedWithToken => csrf_token = Poll.parsed_token


\* ---- C31
\* The step just taken was a _poll_once that put a GET on the wire.
PollGet == polled # <<>> /\ "sent" \in DOMAIN polled[1]

\* self._marketplace_url, once set, keeps its value; _poll_once is entered
\* only with it set.
C31_Step ==
    /\ marketplace_url # NoUrl => marketplace_url' = marketplace_url
    /\ (pc = "poll" /\ pc' # "poll") => marketplace_url # NoUrl

\* C31: the marketplace URL is set at most once and never changed afterwards;
\* every GET of a poll, a retransmission included, goes to that URL, and no
\* poll GET is made while it is unset.
C31_MarketplaceUrlFixed ==
    /\ [](PollGet =>
            /\ marketplace_url # NoUrl
            /\ \A i \in DOMAIN polled[1].sent : polled[1].sent[i].url = marketplace_url)
    /\ [](gets = 0 => marketplace_url = NoUrl)
    /\ [][C31_Step]_vars

\* The link was found on the event page, and a poll, sent twice because the
\* connection was terminated, went both times to the URL found.
C31_Witness ==
    /\ PollGet
    /\ gets = 3
    /\ polled[1].sent[1].url = marketplace_url
    /\ Len(polled[1].sent) = 2
    /\ polled[1].sent[2].url = marketplace_url
    /\ marketplace_url = secondhand_url


\* ---- C32
\* The text "/secondhand/buy/" stands in the source of the page.
HasFragment ==
    \E i \in DOMAIN html.items :
        LET e == html.items[i] IN
        \/ e.kind = "a" /\ HasBuyFragment(e.href)
        \/ e.kind \in {"panel", "wrapper", "form"} /\ e.form.method # "none"
                                                 /\ HasBuyFragment(e.form.action)

\* The fast path applies: the fragment is there and the patterns find a listing.
FastPathYields == HasFragment /\ extract_listings_fast(html) # <<>>

\* What the structural parse returns for the page.
StructuralResult ==
    IF html.marker \in {"alert", "alert_entity"}
    THEN ParseResult(FALSE, <<>>, extract_csrf_token(html))
    ELSE ParseResult(extract_listings(html) # <<>>, extract_listings(html),
                     extract_csrf_token(html))

\* C32: for a page without the no-inventory marker, the result is the fast
\* path's listings, marked available, if the page holds the reservation
\* fragment and the fast path finds a listing, whatever the structural parse
\* would find; otherwise it is the structural parse's result. A page in which
\* no stage finds anything gives not available and no listing.
C32_StagePrecedence ==
    (Parsed("parse") /\ ~HasMarker) =>
        /\ FastPathYields =>
               /\ parsed[1].result.tickets_available
               /\ parsed[1].result.listings = extract_listings_fast(html)
        /\ ~FastPathYields => parsed[1].result = StructuralResult
        /\ (~FastPathYields /\ extract_listings(html) = <<>>) =>
               /\ ~parsed[1].result.tickets_available
               /\ parsed[1].result.listings = <<>>

\* A page on which the fast path finds the listing and the structural parse
\* would have found a cart link besides: the result is the fast path's.
C32_Witness ==
    /\ Parsed("parse")
    /\ html.marker = "none"
    /\ html.items = <<ListingA, CartAnchor>>
    /\ Len(extract_listings(html)) = 2
    /\ parsed[1].result.listings = <<PanelA>>
    /\ parsed[1].result.tickets_available


\* ---- C33
IsAbsolute(form_action) == form_action # <<>> /\ form_action[1] = "http"
IsRootRelative(form_action) == form_action # <<>> /\ form_action[1] = "/"

\* Form actions of each kind: absolute, root-relative, empty, relative to the
\* page, and a query alone.
FormActions ==
    {PanelA.form_action, LinkD.form_action, FormE.form_action, <<>>,
     <<"buy", "/", "e">>, <<"?", "item", "e">>}

\* url is the reservation URL the claim gives for form_action; one case applies.
Resolved(form_action, url) ==
    /\ ~(IsAbsolute(form_action) /\ IsRootRelative(form_action))
    /\ IsAbsolute(form_action) => url = form_action
    /\ IsRootRelative(form_action) => url = base_url \o form_action
    /\ (~IsAbsolute(form_action) /\ ~IsRootRelative(form_action)) => url = cart_add_url

C34_ConnectionWithinMark == carried <= MAX_REQUESTS_BEFORE_RECONNECT


\* ---- C35
\* C35: under every configuration get_backoff_seconds() answers, at every
\* error count of 1 or more, at least the configured poll interval.
C35_BackoffNotBelowInterval ==
    (backoff # <<>> /\ BackoffAt >= 1) => BackoffValue >= timing.poll_interval_seconds


\* ---- C36
\* One _poll_once adds at most one to the error count.
C36_Step == (pc = "poll" /\ polled' # <<>>) => consecutive_errors' <= consecutive_errors + 1

\* C36: one iteration of the poll loop raises consecutive_errors by at most
\* one, whatever the status, the Retry-After value or the exception met.
C36_AtMostOneErrorPerPoll == [][C36_Step]_vars


\* ---- C37
\* A loop test of run() evaluated after stop() was called leaves the loop.
C37_Step == (stopped /\ pc \in {"loop_top", "wait_top"}) => pc' = "finally"

\* C37: a stop() request is not lost: whether it is made before run() starts,
\* with its first statement or later, _running stays cleared from then on and
\* the next loop test ends the run.
C37_StopNeverLost ==
    /\ [](stopped => ~running)
    /\ [][C37_Step]_vars


\* ---- C38
\* What the parser makes of each page the marketplace can serve.
ServedResults == {parse_secondhand_page(r.html) : r \in PollResponses}

\* The result run() holds for _handle_tickets_found reports tickets and has
\* a first listing.
C38_Held ==
    /\ \A p \in ServedResults : p.tickets_available <=> p.listings # <<>>
    /\ result # <<>> => result[1].tickets_available /\ result[1].listings # <<>>
    /\ pc = "add_to_cart" => result # <<>>

\* _handle_tickets_found, when it has run, has made an attempt for that
\* first listing and put its POST on the wire.
C38_Step ==
    (pc = "add_to_cart" /\ pc' # "add_to_cart" /\ ~sigint') =>
        /\ Made'
        /\ attempt'[1].cart.listing = result[1].listings[1]
        /\ Len(attempt'[1].cart.sent) >= 1
        /\ posts' > posts

\* C38: a parse result reports tickets exactly when it has listings, so every
\* detection handed to _handle_tickets_found has a first listing and a
\* reservation POST is transmitted for it.
C38_DetectionHasListing == [] C38_Held /\ [][C38_Step]_vars

C38_Witness ==
    /\ Made
    /\ Detected = <<LinkD>>
    /\ Cart.listing = LinkD
    /\ Len(Cart.sent) = 1
    /\ posts = 1


\* ---- C39
\* The anti-forgery tokens a page holds: in its text, in its meta tag or
\* hidden input, in the forms of its listings.
TokensOf(page) ==
    ({page.scan_token, page.dom_token}
        \cup {page.fast[i].form_data.csrfmiddlewaretoken : i \in DOMAIN page.fast}
        \cup {page.dom[i].form_data.csrfmiddlewaretoken : i \in DOMAIN page.dom})
    \ {None, Absent, ""}

\* The attempt made for the page just polled: when the page holds a token,
\* every transmission of the POST has the token field, with the listing's own
\* value, or else with the stored token, which is the one parsed from that
\* page.
C39_Step ==
    (pc = "add_to_cart" /\ Made') =>
        /\ HasPolled
        /\ LET page == polled[1].page
               cart == attempt'[1].cart
               own == cart.listing.form_data.csrfmiddlewaretoken
           IN TokensOf(page) # {} =>
                 \A i \in DOMAIN cart.sent :
                    LET field == cart.sent[i].data.csrfmiddlewaretoken IN
                    /\ field \in TokensOf(page)
                    /\ own # Absent => field = own
                    /\ own = Absent =>
                          /\ field = cart.token
                          /\ cart.token = csrf_token
                          /\ cart.token = polled[1].parsed_token

\* C39: every reservation POST carries the anti-forgery token field when the
\* page that produced the detection held a token: the listing's own, or the
\* stored token, which the poll of that page has set before the attempt.
C39_PostCarriesToken == [][C39_Step]_vars

\* A listing without a token field, from a page with a token in its meta
\* tag, posted twice with that token.
C39_Witness ==
    /\ Made
    /\ Cart.listing = FormC
    /\ Cart.token = "tok2"
    /\ Len(Cart.sent) = 2
    /\ \A i \in DOMAIN Cart.sent : Cart.sent[i].data.csrfmiddlewaretoken = "tok2"
    /\ gets = 3


\* ---- C40
\* A poll made while a token is stored leaves a token stored, and leaves the
\* very same one unless a 200 response was parsed with a token of its own.
C40_Step ==
    (pc = "poll" /\ HasPolled' /\ csrf_token \notin {None, ""}) =>
        /\ csrf_token' \notin {None, ""}
        /\ (\/ polled'[1].raised # None
            \/ polled'[1].status_code # 200
            \/ polled'[1].parsed_token \in {None, ""}) => csrf_token' = csrf_token

\* C40: once the session holds a token no later poll clears it: a 200
\* response parsed without a token, a response of another status and a failed
\* request leave the stored token as it was.
C40_TokenNeverCleared == [][C40_Step]_vars

\* A 200 page without any token, polled while a token was stored.
C40_Witness ==
    /\ HasPolled
    /\ Poll.raised = None
    /\ Poll.status_code = 200
    /\ Poll.retry_after = None
    /\ Poll.parsed_token = None
    /\ TokensOf(Poll.page) = {}
    /\ csrf_token = "tok1"

\* A 200 page whose token field is empty, polled while a token was stored.
C40_WitnessEmpty ==
    /\ HasPolled
    /\ Poll.status_code = 200
    /\ Poll.retry_after = None
    /\ Poll.parsed_token = ""
    /\ csrf_token = "tok1"

=============================================================================
